---- MODULE Spec2Model ----
(***************************************************************************)
(* ReelTrust: the verification package written by sign_video and checked   *)
(* by verify_video_digest, modelled from src/src/reeltrust.                *)
(*                                                                         *)
(* Conventions.                                                            *)
(*  - A file's bytes are a tuple: <<"video", content, frames, width, enc>> *)
(*    for a decodable video, <<"garbage">> for undecodable bytes, a        *)
(*    sequence of JSON tokens for a JSON text.  NoFile stands for a path   *)
(*    that does not exist.                                                 *)
(*  - A Python str is <<"lit", s>> or the hex digest <<"sha256", bytes>>;  *)
(*    SHA-256 is taken to be collision free, so the digest is modelled by  *)
(*    the bytes it was computed from.                                      *)
(*  - A JSON value is <<"s", str>>, <<"n", int>> or <<"o", pairs>>, where  *)
(*    pairs is the insertion-ordered sequence of <<key, value>> of a dict. *)
(*  - SSIM scores are integers in hundredths (92 is 0.92); a mean is the   *)
(*    pair <<sum, count>> and is compared by cross-multiplication.         *)
(*  - A local of the Python code that is read several times is bound as   *)
(*    the parameter of a local operator (LET F(x) == ... IN F(e)), so that *)
(*    e is written, and evaluated, once.                                   *)
(***************************************************************************)
EXTENDS Integers, Sequences, FiniteSets, TLC

VARIABLES
    pkg,        \* the package directory on disk
    sign,       \* the local state of the running sign_video call
    verify,     \* the local state of the running verify_video_digest call
    result,     \* the VerificationResult a caller of verify_video_digest holds
    nOps,       \* sign_video calls started and outside modifications made so far
    lastSigned, \* history: the last undisturbed sign_video's video and the package it left
    incomplete, \* history: a sign_video has started and has not written signature.json
    call,       \* the arguments of a library function under test
    ret         \* what that function returned

vars == <<pkg, sign, verify, result, nOps, lastSigned, incomplete, call, ret>>

(***************************************************************************)
(* Bounds of the model.                                                    *)
(***************************************************************************)
NumContents == 2   \* distinct picture contents of source videos
MaxFrames == 2     \* frame counts of source videos are 1..MaxFrames
MaxOps == 2        \* sign_video calls and outside modifications in one behaviour

(***************************************************************************)
(* Python values.                                                          *)
(***************************************************************************)
Lit(s) == <<"lit", s>>
JStr(p) == <<"s", p>>
JNum(n) == <<"n", n>>
JObj(pairs) == <<"o", pairs>>
IsObj(v) == v[1] = "o"

None == <<"None">>
Raise == <<"raise">>
NoFile == <<"nofile">>

\* dict[key] = value: an existing key keeps its position, a new one is appended.
RECURSIVE DictSet(_, _, _)
DictSet(pairs, k, v) ==
    IF pairs = <<>> THEN << <<k, v>> >>
    ELSE IF Head(pairs)[1] = k THEN << <<k, v>> >> \o Tail(pairs)
    ELSE <<Head(pairs)>> \o DictSet(Tail(pairs), k, v)

HasKey(pairs, k) == \E i \in 1..Len(pairs) : pairs[i][1] = k

\* dict.get(key, default) on a JSON value; Raise (AttributeError) when the
\* value is not a dict.
DictGet(v, k, default) ==
    IF ~IsObj(v) THEN Raise
    ELSE IF HasKey(v[2], k)
         THEN v[2][CHOOSE i \in 1..Len(v[2]) : v[2][i][1] = k][2]
         ELSE default

(***************************************************************************)
(* json.dumps / json.dump and json.load.                                   *)
(* The keys the program writes, in the order Python compares them          *)
(* (by code point), which is the order sort_keys=True emits them in.       *)
(***************************************************************************)
SortedKeys ==
    << "algorithm", "audio_fingerprint.json", "description", "digest_video.mp4",
       "duration", "files", "fps", "frame_count", "manifest_hash",
       "metadata.json", "note", "original_video", "package_id", "sha256",
       "version" >>

KeyRank(k) == CHOOSE i \in 1..Len(SortedKeys) : SortedKeys[i] = k

RECURSIVE InsertByKey(_, _)
InsertByKey(sorted, p) ==
    IF sorted = <<>> THEN <<p>>
    ELSE IF KeyRank(p[1]) < KeyRank(Head(sorted)[1]) THEN <<p>> \o sorted
    ELSE <<Head(sorted)>> \o InsertByKey(Tail(sorted), p)

\* The mutant of SortByKey: the keys stay in insertion order.
SortByKeyInsertionOrder(pairs) == pairs

RECURSIVE SortByKey(_)
SortByKey(pairs) ==
    IF pairs = <<>> THEN <<>> ELSE InsertByKey(SortByKey(Tail(pairs)), Head(pairs))

Ws == <<"ws">>
TokOpen == <<"{">>
TokClose == <<"}">>
TokComma == <<",">>
TokColon == <<":">>

\* json.dumps(v, sort_keys=sortKeys, indent=2 if indent else None, and with
\* separators=(",", ":") when not indent): the text as a token sequence.
RECURSIVE JsonDumps(_, _, _)
RECURSIVE DumpMembers(_, _, _)
JsonDumps(v, sortKeys, indent) ==
    IF ~IsObj(v) THEN <<v>>
    ELSE IF v[2] = <<>> THEN <<TokOpen, TokClose>>
    ELSE <<TokOpen>> \o (IF indent THEN <<Ws>> ELSE <<>>)
         \o DumpMembers(IF sortKeys THEN SortByKey(v[2]) ELSE v[2], sortKeys, indent)
         \o (IF indent THEN <<Ws>> ELSE <<>>) \o <<TokClose>>
DumpMembers(pairs, sortKeys, indent) ==
    LET one == <<JStr(Lit(Head(pairs)[1])), TokColon>>
               \o (IF indent THEN <<Ws>> ELSE <<>>)
               \o JsonDumps(Head(pairs)[2], sortKeys, indent)
    IN  IF Len(pairs) = 1 THEN one
        ELSE one \o <<TokComma>> \o (IF indent THEN <<Ws>> ELSE <<>>)
             \o DumpMembers(Tail(pairs), sortKeys, indent)

RECURSIVE SkipWs(_, _)
SkipWs(t, i) == IF i <= Len(t) /\ t[i] = Ws THEN SkipWs(t, i + 1) ELSE i

\* The JSON decoder: a value starting at token i, as [ok, val, next].
ParseFail == [ok |-> FALSE, val |-> None, next |-> 0]
RECURSIVE ParseValue(_, _)
RECURSIVE ParseMembers(_, _, _)
ParseValue(t, i) ==
    LET At(j) ==
          IF j > Len(t) THEN ParseFail
          ELSE IF t[j][1] \in {"s", "n"} THEN [ok |-> TRUE, val |-> t[j], next |-> j + 1]
          ELSE IF t[j] = TokOpen THEN
              LET Inside(k) ==
                    IF k <= Len(t) /\ t[k] = TokClose
                    THEN [ok |-> TRUE, val |-> JObj(<<>>), next |-> k + 1]
                    ELSE ParseMembers(t, k, <<>>)
              IN Inside(SkipWs(t, j + 1))
          ELSE ParseFail
    IN At(SkipWs(t, i))
ParseMembers(t, i, acc) ==
    LET Key(j) ==
          IF j > Len(t) \/ t[j][1] # "s" THEN ParseFail
          ELSE
            LET Colon(c) ==
                  IF c > Len(t) \/ t[c] # TokColon THEN ParseFail
                  ELSE
                    LET Member(pv) ==
                          IF ~pv.ok THEN ParseFail
                          ELSE
                            LET After(acc2, e) ==
                                  IF e > Len(t) THEN ParseFail
                                  ELSE IF t[e] = TokClose
                                       THEN [ok |-> TRUE, val |-> JObj(acc2), next |-> e + 1]
                                  ELSE IF t[e] = TokComma THEN ParseMembers(t, e + 1, acc2)
                                  ELSE ParseFail
                            IN After(DictSet(acc, t[j][2][2], pv.val), SkipWs(t, pv.next))
                    IN Member(ParseValue(t, c + 1))
            IN Colon(SkipWs(t, j + 1))
    IN Key(SkipWs(t, i))

\* json.load of a file: the value, or Raise (OSError, JSONDecodeError).
JsonLoad(file) ==
    LET Parsed(pv) ==
          IF pv.ok /\ SkipWs(file, pv.next) > Len(file) THEN pv.val ELSE Raise
    IN IF file = NoFile \/ file = <<"garbage">> THEN Raise
       ELSE Parsed(ParseValue(file, 1))

(***************************************************************************)
(* signature.py                                                            *)
(***************************************************************************)
Sha256(bytes) == <<"sha256", bytes>>

\* The mutant of calculate_manifest_hash: the keys are not sorted.
calculate_manifest_hash_unsorted(manifest_data) ==
    Sha256(JsonDumps(manifest_data, FALSE, FALSE))

calculate_manifest_hash(manifest_data) ==
    Sha256(JsonDumps(manifest_data, TRUE, FALSE))

\* original_video_hash[:16] is modelled by the hash it is a prefix of.
PackageId(original_video_hash) == <<"prefix16", original_video_hash>>

\* digest_properties is None or a dict with any of frame_count, fps, duration.
create_manifest(original_video_hash, digest_video_hash, audio_fingerprint_hash, metadata_hash, digest_properties) ==
    LET e0 == << <<"sha256", JStr(digest_video_hash)>>,
                 <<"description", JStr(Lit("Compressed reference video digest"))>> >>
        props == IF digest_properties = None THEN <<>> ELSE digest_properties[2]
        e1 == IF HasKey(props, "frame_count")
              THEN DictSet(e0, "frame_count", DictGet(JObj(props), "frame_count", None))
              ELSE e0
        e2 == IF HasKey(props, "fps")
              THEN DictSet(e1, "fps", DictGet(JObj(props), "fps", None))
              ELSE e1
        digest_entry == IF HasKey(props, "duration")
              THEN DictSet(e2, "duration", DictGet(JObj(props), "duration", None))
              ELSE e2
    IN JObj(<<
        <<"version", JStr(Lit("1.0"))>>,
        <<"package_id", JStr(PackageId(original_video_hash))>>,
        <<"files", JObj(<<
            <<"digest_video.mp4", JObj(digest_entry)>>,
            <<"audio_fingerprint.json", JObj(<<
                <<"sha256", JStr(audio_fingerprint_hash)>>,
                <<"description", JStr(Lit("Audio fingerprint data"))>> >>)>>,
            <<"metadata.json", JObj(<<
                <<"sha256", JStr(metadata_hash)>>,
                <<"description", JStr(Lit("Video metadata and creation info"))>> >>)>>
          >>)>>,
        <<"original_video", JObj(<<
            <<"sha256", JStr(original_video_hash)>>,
            <<"description", JStr(Lit("SHA-256 hash of the original source video"))>> >>)>>
       >>)

create_signature(manifest_data) ==
    JObj(<<
        <<"version", JStr(Lit("1.0"))>>,
        <<"algorithm", JStr(Lit("SHA-256"))>>,
        <<"manifest_hash", JStr(calculate_manifest_hash(manifest_data))>>,
        <<"note", JStr(Lit("This is a cryptographic hash."))>> >>)

\* save_manifest / save_signature: json.dump(obj, f, indent=2), as the bytes written.
save_manifest(manifest) == JsonDumps(manifest, FALSE, TRUE)
save_signature(signature) == JsonDumps(signature, FALSE, TRUE)
load_manifest(file) == JsonLoad(file)
load_signature(file) == JsonLoad(file)

(***************************************************************************)
(* video_processor.py, and the external A/V toolkit behind it.             *)
(***************************************************************************)
DefaultWidth == 240

\* The bytes the encoder can produce for one input differ at most in enc.
\* Variant 0 is what the encoder produced at sign time; a deterministic
\* encoder yields it again at verify time.
EncVariants == {0, 1}

Video(content, frames, width, enc) == <<"video", content, frames, width, enc>>
Garbage == <<"garbage">>
IsVideo(file) == file[1] = "video"
FramesOf(file) == file[3]
WidthOf(file) == file[4]

\* The files a caller can pass as video_path: decodable sources at their
\* original resolution (width 0), and one file that is no video.
SourceVideos == { Video(c, f, 0, 0) : c \in 1..NumContents, f \in 1..MaxFrames }
VideoPaths == SourceVideos \cup {Garbage}

\* compress_video: the bytes written to output_path, or Raise (RuntimeError).
compress_video(input, width, enc) ==
    IF IsVideo(input) THEN Video(input[2], FramesOf(input), width, enc) ELSE Raise

hash_file(file) == Sha256(file)

(***************************************************************************)
(* audio_fingerprint.py and metadata.py: the two JSON blobs of a package.  *)
(***************************************************************************)
create_audio_fingerprint(video) ==
    JObj(<< <<"algorithm", JStr(Lit("chromaprint"))>>,
            <<"version", JStr(Lit("1.0"))>>,
            <<"duration", JNum(FramesOf(video))>>,
            <<"fingerprint", JStr(<<"chromaprint", video[2]>>)>> >>)

save_audio_fingerprint(fingerprint_data) == JsonDumps(fingerprint_data, FALSE, TRUE)

\* created_at is the wall clock; the number of the sign call stands for it.
create_metadata(video, clock) ==
    JObj(<< <<"version", JStr(Lit("1.0"))>>,
            <<"created_at", JStr(<<"utc", clock>>)>>,
            <<"source_file", JObj(<< <<"name", JStr(<<"name", video[2]>>)>>,
                                     <<"size_bytes", JNum(FramesOf(video))>> >>)>>,
            <<"video_info", JObj(<< <<"duration", JNum(FramesOf(video))>>,
                                    <<"format", JStr(Lit("mp4"))>>,
                                    <<"streams", JNum(2)>> >>)>> >>)

save_metadata(metadata) == JsonDumps(metadata, FALSE, TRUE)

(***************************************************************************)
(* verifier.py                                                             *)
(***************************************************************************)
Range(s) == {s[i] : i \in DOMAIN s}
EmptyDict == [k \in {} |-> TRUE]
Put(d, k, v) == [x \in (DOMAIN d) \cup {k} |-> IF x = k THEN v ELSE d[x]]
Get(d, k, default) == IF k \in DOMAIN d THEN d[k] ELSE default

\* Means of integer scores: <<sum, count>>.
MeanLess(a, b) == a[1] * b[2] < b[1] * a[2]
MeanGeq(mean, threshold) == mean[1] >= threshold * mean[2]
One == <<100, 1>>

RECURSIVE SumSeq(_)
SumSeq(s) == IF s = <<>> THEN 0 ELSE Head(s) + SumSeq(Tail(s))
MinSeq(s) == CHOOSE x \in {s[i] : i \in 1..Len(s)} : \A i \in 1..Len(s) : x <= s[i]
IndexOf(s, x) == CHOOSE i \in 1..Len(s) : s[i] = x /\ \A j \in 1..(i - 1) : s[j] # x
Min2(a, b) == IF a <= b THEN a ELSE b

\* _format_timestamp(frame / fps) as <<hours, minutes, seconds>>.
FormatTimestamp(frame, fps) ==
    LET seconds == frame \div fps IN
    << seconds \div 3600, (seconds % 3600) \div 60, seconds % 60 >>

\* sorted(window_data, key=ssim): a stable insertion sort.
RECURSIVE InsertBySsim(_, _)
InsertBySsim(sorted, w) ==
    IF sorted = <<>> THEN <<w>>
    ELSE IF MeanLess(w.ssim, Head(sorted).ssim) THEN <<w>> \o sorted
    ELSE <<Head(sorted)>> \o InsertBySsim(Tail(sorted), w)
RECURSIVE SortBySsim(_)
SortBySsim(ws) ==
    IF ws = <<>> THEN <<>>
    ELSE InsertBySsim(SortBySsim(SubSeq(ws, 1, Len(ws) - 1)), ws[Len(ws)])

\* The mutant of SsimWindows: the window slides by one frame.
RECURSIVE SsimWindowsSliding(_, _, _, _)
SsimWindowsSliding(ssim_scores, window_size, fps, i) ==
    IF i >= Len(ssim_scores) THEN <<>>
    ELSE
      LET start_frame == i
          end_frame == Min2(i + window_size - 1, Len(ssim_scores) - 1)
          window == SubSeq(ssim_scores, start_frame + 1, end_frame + 1)
          window_min == MinSeq(window)
          absolute_min_frame == start_frame + IndexOf(window, window_min) - 1
      IN << [start_frame |-> start_frame,
             end_frame |-> end_frame,
             start_time |-> FormatTimestamp(start_frame, fps),
             end_time |-> FormatTimestamp(end_frame, fps),
             ssim |-> <<SumSeq(window), Len(window)>>,
             min_ssim |-> window_min,
             min_ssim_frame |-> absolute_min_frame,
             min_ssim_time |-> FormatTimestamp(absolute_min_frame, fps)] >>
         \o SsimWindowsSliding(ssim_scores, window_size, fps, i + 1)

\* The while loop of compute_ssim over the non-overlapping windows.
RECURSIVE SsimWindows(_, _, _, _)
SsimWindows(ssim_scores, window_size, fps, i) ==
    IF i >= Len(ssim_scores) THEN <<>>
    ELSE
      LET start_frame == i
          end_frame == Min2(i + window_size - 1, Len(ssim_scores) - 1)
          window == SubSeq(ssim_scores, start_frame + 1, end_frame + 1)
          window_min == MinSeq(window)
          absolute_min_frame == start_frame + IndexOf(window, window_min) - 1
      IN << [start_frame |-> start_frame,
             end_frame |-> end_frame,
             start_time |-> FormatTimestamp(start_frame, fps),
             end_time |-> FormatTimestamp(end_frame, fps),
             ssim |-> <<SumSeq(window), Len(window)>>,
             min_ssim |-> window_min,
             min_ssim_frame |-> absolute_min_frame,
             min_ssim_time |-> FormatTimestamp(absolute_min_frame, fps)] >>
         \o SsimWindows(ssim_scores, window_size, fps, i + window_size)

\* compute_ssim on the per-frame scores parsed from the stats file:
\* Raise (ValueError) on none, else <<min_window_ssim, min_frame_ssim, worst_windows>>.
compute_ssim(ssim_scores, window_size, fps) ==
    IF ssim_scores = <<>> THEN Raise
    ELSE
      LET num_frames == Len(ssim_scores)
          min_frame_ssim == MinSeq(ssim_scores)
      IN IF num_frames <= window_size
         THEN LET avg_ssim == <<SumSeq(ssim_scores), num_frames>> IN
              << avg_ssim, min_frame_ssim,
                 << [start_frame |-> 0,
                     end_frame |-> num_frames - 1,
                     start_time |-> <<0, 0, 0>>,
                     end_time |-> FormatTimestamp(num_frames - 1, fps),
                     ssim |-> avg_ssim] >> >>
         ELSE LET sorted_windows == SortBySsim(SsimWindows(ssim_scores, window_size, fps, 0))
                  worst_windows == SubSeq(sorted_windows, 1, Min2(3, Len(sorted_windows)))
              IN << worst_windows[1].ssim, min_frame_ssim, worst_windows >>

DefaultWindowSize == 60
DefaultFps == 30
DefaultSsimThreshold == 99
CliSsimThreshold == 92

\* What FFmpeg's ssim filter can write to the stats file for two inputs:
\* <<"stats", the per-frame scores>>, one score per frame of the first input,
\* or Raise when the second input cannot be decoded or the two differ in
\* size.  Identical inputs score 1.0 on every frame; the frames of others
\* score one of SsimLevels (hundredths).
SsimLevels == {91, 99}
SsimStats(video1, video2) ==
    IF ~IsVideo(video2) \/ WidthOf(video1) # WidthOf(video2) THEN {Raise}
    ELSE IF video1 = video2 THEN { <<"stats", [i \in 1..FramesOf(video1) |-> 100]>> }
    ELSE { <<"stats", scores>> : scores \in [1..FramesOf(video1) -> SsimLevels] }

\* get_video_frame_count: ffprobe's packet count as a number, or Raise.
get_video_frame_count(file) == IF IsVideo(file) THEN JNum(FramesOf(file)) ELSE Raise

\* The mutant: the hash is taken of the bytes of manifest.json as they are
\* on disk, not of the canonical form of the loaded manifest.
ManifestIntegrityOfBytes(manifest_file, signature_file) ==
    LET Equal(calculated_hash, stored_hash) ==
          IF stored_hash = Raise THEN "raise"
          ELSE IF JStr(calculated_hash) = stored_hash THEN "match" ELSE "mismatch"
        Compare(manifest, signature) ==
          IF manifest = Raise \/ signature = Raise THEN "raise"
          ELSE Equal(Sha256(manifest_file),
                     DictGet(signature, "manifest_hash", JStr(Lit(""))))
    IN Compare(load_manifest(manifest_file), load_signature(signature_file))

\* Step 2 of verify_video_digest, lines 602-621: "match" or "mismatch" for
\* the comparison made, "raise" for the except branch.
ManifestIntegrity(manifest_file, signature_file) ==
    LET Equal(calculated_hash, stored_hash) ==
          IF stored_hash = Raise THEN "raise"
          ELSE IF JStr(calculated_hash) = stored_hash THEN "match" ELSE "mismatch"
        Compare(manifest, signature) ==
          IF manifest = Raise \/ signature = Raise THEN "raise"
          ELSE Equal(calculate_manifest_hash(manifest),
                     DictGet(signature, "manifest_hash", JStr(Lit(""))))
    IN Compare(load_manifest(manifest_file), load_signature(signature_file))

\* manifest.get("files", {}).get("digest_video.mp4", {}): the digest's entry,
\* or Raise (AttributeError) when a value on the way is not a dict.
DigestEntry(manifest) ==
    LET Entry(files) ==
          IF files = Raise THEN Raise ELSE DictGet(files, "digest_video.mp4", JObj(<<>>))
    IN Entry(DictGet(manifest, "files", JObj(<<>>)))

\* Lines 700-716: the overall verdict from the recorded checks.
\* The mutant: the frame-count check is not required.
OverallVerdictNoFrames(checks) ==
    /\ Get(checks, "package_structure", FALSE)
    /\ Get(checks, "manifest_integrity", FALSE)
    /\ (Get(checks, "digest_hash_match", FALSE) \/ Get(checks, "ssim_score", FALSE))

\* The mutant: the manifest-integrity check is not required.
OverallVerdictNoIntegrity(checks) ==
    /\ Get(checks, "package_structure", FALSE)
    /\ Get(checks, "frame_count_match", FALSE)
    /\ (Get(checks, "digest_hash_match", FALSE) \/ Get(checks, "ssim_score", FALSE))

\* The mutant: the content checks are not required.
OverallVerdictNoContent(checks) ==
    \A check \in {"package_structure", "manifest_integrity", "frame_count_match"} :
        Get(checks, check, FALSE)

OverallVerdict(checks) ==
    LET required_pass ==
            \A check \in {"package_structure", "manifest_integrity", "frame_count_match"} :
                Get(checks, check, FALSE)
        content_match ==
            Get(checks, "digest_hash_match", FALSE) \/ Get(checks, "ssim_score", FALSE)
    IN required_pass /\ content_match

\* Line 638: recreated_hash == stored_digest_hash, a str against the JSON value.
\* The mutant: the hashes are never found equal.
HashMatchNever(recreated_hash, stored_digest_hash) == FALSE

HashMatch(recreated_hash, stored_digest_hash) == JStr(recreated_hash) = stored_digest_hash

\* Lines 676-678: the frame count the recreated digest is compared with is
\* the manifest's frame_count, and the probed count of the digest on disk
\* when the manifest has none.
\* The mutant: the digest on disk is always probed.
StoredFrameCountProbed(manifest_frames, digest_file) == get_video_frame_count(digest_file)

StoredFrameCount(manifest_frames, digest_file) ==
    IF manifest_frames = None THEN get_video_frame_count(digest_file) ELSE manifest_frames

\* Line 654: ssim_score >= ssim_threshold.
\* The mutant: the threshold itself does not pass.
SsimMeetsStrictly(ssim_score, ssim_threshold) ==
    ssim_score[1] > ssim_threshold * ssim_score[2]

SsimMeets(ssim_score, ssim_threshold) == MeanGeq(ssim_score, ssim_threshold)

\* Steps 4 to 6, lines 629-693, once compress_video has written `recreated`
\* and the digest's manifest entry is `entry`.  stats is what the ssim filter
\* writes if it is run.  The value is <<checks, details, errors, steps>>.
ContentChecks(fs, recreated, entry, ssim_threshold, stats, checks0, errors0) ==
    LET Checks(digest_hash_match, ssim_score) ==
          Put(Put(checks0, "digest_hash_match", digest_hash_match), "ssim_score", ssim_score)
        steps5 == <<"compress_video", "hash_file", "compute_ssim">>
        \* Step 5, lines 646-668, with the score compute_ssim returned
        Scored(d, ssim_score) ==
          IF SsimMeets(ssim_score, ssim_threshold)
          THEN << Checks(FALSE, TRUE),
                  Put(d, "ssim_note", "Hashes differ but SSIM score meets threshold"),
                  errors0, steps5 >>
          ELSE << Checks(FALSE, FALSE), d,
                  Append(errors0, "SSIM score below threshold"), steps5 >>
        \* Step 5, lines 641-671: the hashes differ
        Differ(details0, ssim) ==
          IF ssim = Raise
          THEN << Checks(FALSE, FALSE), details0,
                  Append(errors0, "Failed to compute SSIM"), steps5 >>
          ELSE Scored(Put(Put(Put(details0, "ssim_score", ssim[1]),
                              "min_frame_ssim", ssim[2]),
                          "worst_windows", ssim[3]),
                      ssim[1])
        \* Step 4, lines 629-640
        Step4(recreated_hash, stored_digest_hash, details0) ==
          IF HashMatch(recreated_hash, stored_digest_hash)
          THEN << Checks(TRUE, TRUE), Put(details0, "ssim_score", One), errors0,
                  <<"compress_video", "hash_file">> >>
          ELSE Differ(details0,
                      IF stats = Raise THEN Raise
                      ELSE compute_ssim(stats[2], DefaultWindowSize, DefaultFps))
        Hashed(recreated_hash, stored_digest_hash) ==
          Step4(recreated_hash, stored_digest_hash,
                Put(Put(EmptyDict, "recreated_digest_hash", recreated_hash),
                    "stored_digest_hash", stored_digest_hash))
        \* Step 6, lines 673-693
        Counted(s5, d6, recreated_frames, stored_frames) ==
          IF recreated_frames = stored_frames
          THEN << Put(s5[1], "frame_count_match", TRUE), d6, s5[3],
                  Append(s5[4], "frame_count") >>
          ELSE << Put(s5[1], "frame_count_match", FALSE), d6,
                  Append(s5[3], "Frame count mismatch"), Append(s5[4], "frame_count") >>
        Step6(s5, recreated_frames, stored_frames) ==
          IF recreated_frames = Raise \/ stored_frames = Raise
          THEN << Put(s5[1], "frame_count_match", FALSE), s5[2],
                  Append(s5[3], "Failed to verify frame counts"),
                  Append(s5[4], "frame_count") >>
          ELSE Counted(s5,
                       Put(Put(s5[2], "recreated_frame_count", recreated_frames),
                           "stored_frame_count", stored_frames),
                       recreated_frames, stored_frames)
    IN Step6(Hashed(hash_file(recreated), DictGet(entry, "sha256", JStr(Lit("")))),
             get_video_frame_count(recreated),
             StoredFrameCount(DictGet(entry, "frame_count", None), fs.digest_video))

\* Steps 1 and 2, lines 577-621: the checks made on the package alone.
\* returned says that the function has returned (is_valid False) with these
\* checks and errors; otherwise manifest is the loaded manifest.
PackageChecks(fs) ==
    LET missing_files ==
            (IF fs.manifest = NoFile THEN <<"manifest.json">> ELSE <<>>)
            \o (IF fs.signature = NoFile THEN <<"signature.json">> ELSE <<>>)
            \o (IF fs.digest_video = NoFile THEN <<"digest_video.mp4">> ELSE <<>>)
        checks1 == Put(EmptyDict, "package_structure", TRUE)
        \* Step 2, with the outcome of the comparison
        Step2(integrity) ==
          IF integrity = "raise"
          THEN [returned |-> TRUE, checks |-> Put(checks1, "manifest_integrity", FALSE),
                errors |-> <<"Failed to verify manifest">>, manifest |-> None]
          ELSE [returned |-> FALSE,
                checks |-> Put(checks1, "manifest_integrity", integrity = "match"),
                errors |-> IF integrity = "match" THEN <<>>
                           ELSE <<"Manifest integrity check failed">>,
                manifest |-> load_manifest(fs.manifest)]
    IN
    IF fs.dir # "dir"
    THEN [returned |-> TRUE, checks |-> EmptyDict,
          errors |-> <<"Package directory does not exist">>, manifest |-> None]
    ELSE IF missing_files # <<>>
    THEN [returned |-> TRUE, checks |-> Put(EmptyDict, "package_structure", FALSE),
          errors |-> <<"Missing required files">>, manifest |-> None]
    ELSE Step2(ManifestIntegrity(fs.manifest, fs.signature))

\* VerificationResult(is_valid, checks, details, errors), and beside it the
\* calls the function made (steps).
VerificationResult(is_valid, checks, details, errors, steps) ==
    [is_valid |-> is_valid, checks |-> checks, details |-> details,
     errors |-> errors, steps |-> steps]

\* The mutant of DigestChecks: a failed recompression ends the call with no
\* check recorded and no error string.
DigestChecksSilent(p, fs, video, compression_width, ssim_threshold, enc, stats) ==
    LET Verdict(c) == VerificationResult(OverallVerdict(c[1]), c[1], c[2], c[3], c[4])
        Failed(steps) == VerificationResult(FALSE, p.checks, EmptyDict, p.errors, steps)
        Step3(recreated, entry) ==
          IF recreated = Raise THEN Failed(<<"compress_video">>)
          ELSE IF entry = Raise \/ DictGet(entry, "sha256", None) = Raise
          THEN Failed(<<"compress_video", "hash_file">>)
          ELSE Verdict(ContentChecks(fs, recreated, entry, ssim_threshold, stats,
                                     p.checks, p.errors))
    IN Step3(compress_video(video, compression_width, enc), DigestEntry(p.manifest))

\* Steps 3 to 6 and the verdict, lines 623-716, after PackageChecks p.
DigestChecks(p, fs, video, compression_width, ssim_threshold, enc, stats) ==
    LET Verdict(c) == VerificationResult(OverallVerdict(c[1]), c[1], c[2], c[3], c[4])
        Failed(steps) ==
          VerificationResult(FALSE, Put(p.checks, "digest_recreation", FALSE), EmptyDict,
                             Append(p.errors, "Failed to recreate digest video"), steps)
        Step3(recreated, entry) ==
          \* Step 3, and the except branch of lines 695-698
          IF recreated = Raise THEN Failed(<<"compress_video">>)
          ELSE IF entry = Raise \/ DictGet(entry, "sha256", None) = Raise
          THEN Failed(<<"compress_video", "hash_file">>)
          ELSE Verdict(ContentChecks(fs, recreated, entry, ssim_threshold, stats,
                                     p.checks, p.errors))
    IN Step3(compress_video(video, compression_width, enc), DigestEntry(p.manifest))

\* verify_video_digest(video_path, package_path, compression_width,
\* ssim_threshold) on the package fs.  enc is the encoder's choice for the
\* recompression and stats what the ssim filter writes if it is run.  The
\* value is the VerificationResult, with the calls made (steps) beside it.
verify_video_digest(video, fs, compression_width, ssim_threshold, enc, stats) ==
    LET Steps(p) ==
          IF p.returned THEN VerificationResult(FALSE, p.checks, EmptyDict, p.errors, <<>>)
          ELSE DigestChecks(p, fs, video, compression_width, ssim_threshold, enc, stats)
    IN Steps(PackageChecks(fs))

(***************************************************************************)
(* fingerprints.py: the windowed comparators.                              *)
(*  - Hash data is a sequence of bytes (0..255), eight per frame.  A       *)
(*    64-bit hash is kept as the eight bytes struct.unpack('<Q') reads it   *)
(*    from; the bit count of the XOR of two hashes is the sum of the bit    *)
(*    counts of the XORs of their bytes.                                    *)
(*  - A value rounded to two decimals is an integer in hundredths.          *)
(***************************************************************************)
HashSize == 8
ThresholdBits == 5

\* bin(n).count('1')
RECURSIVE BitCount(_)
BitCount(n) == IF n = 0 THEN 0 ELSE (n % 2) + BitCount(n \div 2)

\* a ^ b on two bytes
RECURSIVE ByteXor(_, _)
ByteXor(a, b) ==
    IF a = 0 /\ b = 0 THEN 0
    ELSE ((a + b) % 2) + 2 * ByteXor(a \div 2, b \div 2)

\* The mutant of hamming_distance: the bits that agree are counted.
hamming_distance_agreeing(hash1, hash2) ==
    SumSeq([i \in 1..Len(hash1) |-> 8 - BitCount(ByteXor(hash1[i], hash2[i]))])

hamming_distance(hash1, hash2) ==
    SumSeq([i \in 1..Len(hash1) |-> BitCount(ByteXor(hash1[i], hash2[i]))])

\* The integer nearest to num / den, a tie going to the even one.
RoundHalfEven(num, den) ==
    LET Nearest(q, r) ==
          IF 2 * r < den THEN q
          ELSE IF 2 * r > den THEN q + 1
          ELSE IF q % 2 = 0 THEN q ELSE q + 1
    IN Nearest(num \div den, num % den)

\* round(mean, 2), in hundredths, of the mean <<sum, count>>.
Round2(mean) == RoundHalfEven(100 * mean[1], mean[2])

\* f"{int(t // 60):02d}:{int(t % 60):02d}" for t = frame / fps, as
\* <<minutes, seconds>>.
MinutesSeconds(frame, fps) == << (frame \div fps) \div 60, (frame \div fps) % 60 >>

MaxSeq(s) == CHOOSE x \in {s[i] : i \in 1..Len(s)} : \A i \in 1..Len(s) : x >= s[i]

\* max(window_means): the first of the largest means.
\* The mutant: the mean over all frames, not the worst window's.
MaxMeanOverall(window_means) ==
    << SumSeq([i \in 1..Len(window_means) |-> window_means[i][1]]),
       SumSeq([i \in 1..Len(window_means) |-> window_means[i][2]]) >>

RECURSIVE MaxMean(_)
MaxMean(window_means) ==
    IF Len(window_means) = 1 THEN window_means[1]
    ELSE LET Later(rest) ==
               IF MeanLess(window_means[1], rest) THEN rest ELSE window_means[1]
         IN Later(MaxMean(Tail(window_means)))

\* Lines 378-404: the windows of compare_perceptual_hashes from start_frame
\* on.  mean is the window's entry of window_means, the other fields are
\* its entry of window_info.
RECURSIVE HammingWindows(_, _, _, _)
HammingWindows(distances, window_size, fps, start_frame) ==
    IF start_frame >= Len(distances) THEN <<>>
    ELSE
      LET Info(end_frame, window_distances, window_max) ==
            [start_frame |-> start_frame,
             end_frame |-> end_frame,
             start_time |-> MinutesSeconds(start_frame, fps),
             end_time |-> MinutesSeconds(end_frame, fps),
             mean |-> <<SumSeq(window_distances), Len(window_distances)>>,
             mean_distance |-> Round2(<<SumSeq(window_distances), Len(window_distances)>>),
             max_distance |-> window_max,
             max_distance_frame |-> start_frame + IndexOf(window_distances, window_max) - 1,
             max_distance_time |->
                 MinutesSeconds(start_frame + IndexOf(window_distances, window_max) - 1, fps)]
          Window(end_frame, window_distances) ==
            Info(end_frame, window_distances, MaxSeq(window_distances))
          Upto(end_frame) == Window(end_frame, SubSeq(distances, start_frame + 1, end_frame))
      IN <<Upto(Min2(start_frame + window_size, Len(distances)))>>
         \o HammingWindows(distances, window_size, fps, start_frame + window_size)

\* sorted(window_info, key=mean_distance, reverse=True): stable, largest first.
RECURSIVE InsertByDistance(_, _)
InsertByDistance(sorted, w) ==
    IF sorted = <<>> THEN <<w>>
    ELSE IF w.mean_distance > Head(sorted).mean_distance THEN <<w>> \o sorted
    ELSE <<Head(sorted)>> \o InsertByDistance(Tail(sorted), w)
RECURSIVE SortByDistance(_)
SortByDistance(ws) ==
    IF ws = <<>> THEN <<>>
    ELSE InsertByDistance(SortByDistance(SubSeq(ws, 1, Len(ws) - 1)), ws[Len(ws)])

\* The mutant of ErrorResult: the mismatch is reported in a valid result.
ErrorResultValid(error) == [is_valid |-> TRUE, error |-> error]

\* {'is_valid': False, 'error': error}: what the comparators return when
\* their inputs cannot be compared.
ErrorResult(error) == [is_valid |-> FALSE, error |-> error]

\* compare_perceptual_hashes(computed_data, stored_data, 8, window_size, fps):
\* the dict returned, or Raise (ValueError of max() on no window).
compare_perceptual_hashes(computed_data, stored_data, window_size, fps) ==
    LET Frame(data, i) == SubSeq(data, (i - 1) * HashSize + 1, i * HashSize)
        Result(frame_count, distances, windows, worst_window_mean) ==
          [frame_count |-> frame_count,
           window_count |-> Len(windows),
           worst_window_mean_distance |-> Round2(worst_window_mean),
           overall_mean_distance |-> Round2(<<SumSeq(distances), frame_count>>),
           max_frame_distance |-> MaxSeq(distances),
           perfect_match_pct |->
               Round2(<<100 * Cardinality({i \in 1..frame_count : distances[i] = 0}),
                        frame_count>>),
           is_valid |-> worst_window_mean[1] < ThresholdBits * worst_window_mean[2],
           threshold_bits |-> ThresholdBits,
           worst_windows |-> SubSeq(SortByDistance(windows), 1, Min2(3, Len(windows)))]
        Windowed(frame_count, distances, windows) ==
          IF windows = <<>> THEN Raise
          ELSE Result(frame_count, distances, windows,
                      MaxMean([i \in 1..Len(windows) |-> windows[i].mean]))
        Compared(frame_count, distances) ==
          Windowed(frame_count, distances, HammingWindows(distances, window_size, fps, 0))
        Counted(frame_count) ==
          Compared(frame_count,
                   [i \in 1..frame_count |->
                      hamming_distance(Frame(computed_data, i), Frame(stored_data, i))])
    IN IF Len(computed_data) # Len(stored_data)
       THEN ErrorResult("Hash data length mismatch")
       ELSE IF Len(computed_data) % HashSize # 0
       THEN ErrorResult("Invalid hash data length")
       ELSE Counted(Len(computed_data) \div HashSize)

\* compare_frame_statistics.  A frame's statistics are the six values
\* y_mean, y_std, u_mean, u_std, v_mean, v_std in this order, in hundredths
\* (they are stored rounded to two decimals).
Channels == <<"y_mean", "y_std", "u_mean", "u_std", "v_mean", "v_std">>
CorrelationThreshold == 90
MadThreshold == 80

Abs(n) == IF n < 0 THEN 0 - n ELSE n

\* np.allclose on values of two decimals (rtol 1e-5, atol 1e-8): below 1000
\* two such values are close only when they are equal.
AllClose(x, y) == x = y

IsConstant(x) == \A i \in 1..Len(x) : x[i] = x[1]

\* Lines 505-511 and 567-569: np.corrcoef(x, y)[0, 1] with its NaN (one
\* point, or a constant side) replaced by 1.0 or 0.0.  Two points of two
\* non-constant sides correlate at +1 or -1.  The coefficient of more
\* points is in general irrational and is left as the term
\* <<"corrcoef", x, y>>; the windows this model compares have at most two
\* frames.
Correlation(x, y) ==
    IF Len(x) <= 1 \/ IsConstant(x) \/ IsConstant(y)
    THEN IF AllClose(x, y) THEN 1 ELSE 0
    ELSE IF Len(x) = 2
    THEN IF (x[2] - x[1]) * (y[2] - y[1]) > 0 THEN 1 ELSE 0 - 1
    ELSE <<"corrcoef", x, y>>

\* min(window_correlations): the first of the smallest means.
RECURSIVE MinMean(_)
MinMean(means) ==
    IF Len(means) = 1 THEN means[1]
    ELSE LET Later(rest) == IF MeanLess(rest, means[1]) THEN rest ELSE means[1]
         IN Later(MinMean(Tail(means)))

\* Lines 493-554: the windows of compare_frame_statistics from start_frame
\* on.  mean_correlation and mean_mad are the window's entries of
\* window_correlations and window_mads (a mean is <<sum, count>>, the MAD
\* in hundredths), the other fields are its entry of window_info.
RECURSIVE StatsWindows(_, _, _, _, _)
StatsWindows(computed_stats, stored_stats, window_size, fps, start_frame) ==
    IF start_frame >= Len(computed_stats) THEN <<>>
    ELSE
      LET Info(end_frame, correlations, mads, frame_mads, max_mad) ==
            [start_frame |-> start_frame,
             end_frame |-> end_frame,
             start_time |-> MinutesSeconds(start_frame, fps),
             end_time |-> MinutesSeconds(end_frame, fps),
             mean_correlation |-> <<SumSeq(correlations), Len(Channels)>>,
             mean_mad |-> <<SumSeq(mads), Len(Channels) * (end_frame - start_frame)>>,
             correlation |-> RoundHalfEven(10000 * SumSeq(correlations), Len(Channels)),
             mad |-> RoundHalfEven(SumSeq(mads), Len(Channels) * (end_frame - start_frame)),
             max_mad_frame |-> start_frame + IndexOf(frame_mads, max_mad) - 1,
             max_mad_value |-> RoundHalfEven(max_mad, Len(Channels)),
             max_mad_time |->
                 MinutesSeconds(start_frame + IndexOf(frame_mads, max_mad) - 1, fps)]
          Worst(end_frame, correlations, mads, frame_mads) ==
            Info(end_frame, correlations, mads, frame_mads, MaxSeq(frame_mads))
          Window(ch, stats, end_frame) ==
            [i \in 1..(end_frame - start_frame) |-> stats[start_frame + i][ch]]
          Upto(end_frame) ==
            Worst(end_frame,
                  [ch \in 1..Len(Channels) |->
                     Correlation(Window(ch, computed_stats, end_frame),
                                 Window(ch, stored_stats, end_frame))],
                  [ch \in 1..Len(Channels) |->
                     SumSeq([i \in 1..(end_frame - start_frame) |->
                               Abs(computed_stats[start_frame + i][ch]
                                   - stored_stats[start_frame + i][ch])])],
                  [i \in 1..(end_frame - start_frame) |->
                     SumSeq([ch \in 1..Len(Channels) |->
                               Abs(computed_stats[start_frame + i][ch]
                                   - stored_stats[start_frame + i][ch])])])
      IN <<Upto(Min2(start_frame + window_size, Len(computed_stats)))>>
         \o StatsWindows(computed_stats, stored_stats, window_size, fps,
                         start_frame + window_size)

\* sorted(window_info, key=correlation): stable, lowest first.
RECURSIVE InsertByCorrelation(_, _)
InsertByCorrelation(sorted, w) ==
    IF sorted = <<>> THEN <<w>>
    ELSE IF w.correlation < Head(sorted).correlation THEN <<w>> \o sorted
    ELSE <<Head(sorted)>> \o InsertByCorrelation(Tail(sorted), w)
RECURSIVE SortByCorrelation(_)
SortByCorrelation(ws) ==
    IF ws = <<>> THEN <<>>
    ELSE InsertByCorrelation(SortByCorrelation(SubSeq(ws, 1, Len(ws) - 1)), ws[Len(ws)])

\* Lines 564-576: the correlation over all frames, the mean over the six
\* channels, rounded to four decimals; the channels' coefficients
\* themselves when one of them is a term.
OverallCorrelation(computed_stats, stored_stats) ==
    LET Column(ch, stats) == [i \in 1..Len(stats) |-> stats[i][ch]]
        Mean(correlations) ==
          IF \A ch \in 1..Len(Channels) :
                \/ Len(computed_stats) <= 2
                \/ IsConstant(Column(ch, computed_stats))
                \/ IsConstant(Column(ch, stored_stats))
          THEN RoundHalfEven(10000 * SumSeq(correlations), Len(Channels))
          ELSE <<"mean", correlations>>
    IN Mean([ch \in 1..Len(Channels) |->
               Correlation(Column(ch, computed_stats), Column(ch, stored_stats))])

\* compare_frame_statistics(computed_stats, stored_stats, window_size, fps).
compare_frame_statistics(computed_stats, stored_stats, window_size, fps) ==
    LET Result(windows, worst_window_correlation, worst_window_mad) ==
          [frame_count |-> Len(computed_stats),
           window_count |-> Len(windows),
           worst_window_correlation |->
               RoundHalfEven(10000 * worst_window_correlation[1], worst_window_correlation[2]),
           worst_window_mad |-> RoundHalfEven(worst_window_mad[1], worst_window_mad[2]),
           overall_correlation |-> OverallCorrelation(computed_stats, stored_stats),
           overall_mad |->
               RoundHalfEven(SumSeq([i \in 1..Len(windows) |-> windows[i].mean_mad[1]]),
                             Len(Channels) * Len(computed_stats)),
           is_valid |->
               /\ 100 * worst_window_correlation[1]
                     >= CorrelationThreshold * worst_window_correlation[2]
               /\ worst_window_mad[1] < MadThreshold * worst_window_mad[2],
           correlation_threshold |-> CorrelationThreshold,
           mad_threshold |-> MadThreshold,
           worst_windows |-> SubSeq(SortByCorrelation(windows), 1, Min2(3, Len(windows)))]
        Windowed(windows) ==
          Result(windows,
                 MinMean([i \in 1..Len(windows) |-> windows[i].mean_correlation]),
                 MaxMean([i \in 1..Len(windows) |-> windows[i].mean_mad]))
    IN IF Len(computed_stats) # Len(stored_stats)
       THEN ErrorResult("Frame count mismatch")
       ELSE IF Len(computed_stats) = 0
       THEN ErrorResult("No frame statistics to compare")
       ELSE Windowed(StatsWindows(computed_stats, stored_stats, window_size, fps, 0))

(***************************************************************************)
(* verifier.py: merge_overlapping_windows.  A time is a whole number of    *)
(* half frame periods, 1 / (2 * fps) seconds, and stands for the double    *)
(* the code computes: frame / fps is twice the frame number and            *)
(* context_seconds = 1.5 is ContextHalfSeconds * fps.                      *)
(***************************************************************************)
ContextHalfSeconds == 3
MergeGapHalfSeconds == 10

Max2(a, b) == IF a >= b THEN a ELSE b

\* The end frames e below 450 for which, at fps = 30.0, the doubles
\* (e + 195) / 30.0 - 1.5 and e / 30.0 + 5.0 differ although the two times
\* are equal: the first is rounded above the second (for e = 19,
\* 5.633333333333334 against 5.633333333333333).
RoundedApart ==
    { 19, 34, 53, 54, 55, 68, 69, 83, 84, 98, 113, 128, 130, 143, 145, 158,
      160, 173, 175, 188, 190, 203, 205, 218, 220, 233, 235, 286, 288, 290,
      292, 301, 303, 305, 307, 316, 318, 320, 322, 331, 335, 346, 350, 361,
      365, 376, 380, 391, 395, 406, 410, 421, 425, 436, 440 }

\* The mutant of PaddedStart: the start is not clamped at 0.
PaddedStartUnclamped(window, fps) == 2 * window.start_frame - ContextHalfSeconds * fps

\* max(0.0, window["start_frame"] / fps - context_seconds)
PaddedStart(window, fps) == Max2(0, 2 * window.start_frame - ContextHalfSeconds * fps)

\* window["end_frame"] / fps
EndSeconds(window, fps) == 2 * window.end_frame

\* next_clip["start_time"] <= current["end_time"] + 5.0 on the doubles: the
\* comparison of the two times, but for the times that are equal and whose
\* doubles are rounded apart.
WithinGap(start_time, end_time, fps) ==
    \/ start_time < end_time + MergeGapHalfSeconds * fps
    \/ /\ start_time = end_time + MergeGapHalfSeconds * fps
       /\ ~(fps = 30 /\ end_time \div 2 \in RoundedApart)

\* The mutant of SortByStartTime: the clips stay in the order given.
SortByStartTimeUnsorted(clips) == clips

\* clips.sort(key=start_time): a stable insertion sort.
RECURSIVE InsertByStartTime(_, _)
InsertByStartTime(sorted, clip) ==
    IF sorted = <<>> THEN <<clip>>
    ELSE IF clip.start_time < Head(sorted).start_time THEN <<clip>> \o sorted
    ELSE <<Head(sorted)>> \o InsertByStartTime(Tail(sorted), clip)
RECURSIVE SortByStartTime(_)
SortByStartTime(clips) ==
    IF clips = <<>> THEN <<>>
    ELSE InsertByStartTime(SortByStartTime(SubSeq(clips, 1, Len(clips) - 1)), clips[Len(clips)])

\* The loop over clips[1:] and the append of the last clip.
RECURSIVE MergeClips(_, _, _, _)
MergeClips(merged, current, rest, fps) ==
    IF rest = <<>> THEN Append(merged, current)
    ELSE IF WithinGap(Head(rest).start_time, current.end_time, fps)
    THEN MergeClips(merged,
                    [start_time |-> current.start_time,
                     end_time |-> Max2(current.end_time, Head(rest).end_time),
                     windows |-> current.windows \o Head(rest).windows],
                    Tail(rest), fps)
    ELSE MergeClips(Append(merged, current), Head(rest), Tail(rest), fps)

\* merge_overlapping_windows(windows, fps, context_seconds = 1.5)
merge_overlapping_windows(windows, fps) ==
    IF windows = <<>> THEN <<>>
    ELSE
      LET Merge(clips) == MergeClips(<<>>, Head(clips), Tail(clips), fps)
      IN Merge(SortByStartTime([i \in 1..Len(windows) |->
                                   [start_time |-> PaddedStart(windows[i], fps),
                                    end_time |-> EndSeconds(windows[i], fps),
                                    windows |-> <<windows[i]>>]]))

(***************************************************************************)
(* The package directory and signer.py.                                    *)
(***************************************************************************)
\* dhash, phash and frame_stats are the files of the fingerprints/
\* subdirectory (fingerprints.py, create_fingerprints).
NoPackage ==
    [dir |-> "absent", digest_video |-> NoFile, audio_fingerprint |-> NoFile,
     metadata |-> NoFile, manifest |-> NoFile, signature |-> NoFile,
     dhash |-> NoFile, phash |-> NoFile, frame_stats |-> NoFile]

\* undisturbed is history: nothing from outside has modified the package
\* since this call started.
Idle ==
    [pc |-> "idle", video |-> None, width |-> 0, clock |-> 0, undisturbed |-> TRUE,
     original_video_hash |-> None, digest_video_hash |-> None,
     audio_fingerprint_hash |-> None, metadata_hash |-> None, manifest |-> None]

\* The operations are sequential (spec section 5): no step of a sign and no
\* outside modification is taken while a verify call runs or its caller
\* holds the result.
Quiet == verify = <<>> /\ result = <<>>
Verifier == UNCHANGED <<verify, result>>
Library == UNCHANGED <<call, ret>>

\* Lines 42-59: the package directory is made (an existing one is reused
\* as it is) and the original is hashed.  mkdir raises when the path is a
\* file.  The directory is named after the video file (<stem>_package): the
\* calls followed here are those whose video_path names this package.
SignStart(video) ==
    /\ Quiet
    /\ sign.pc = "idle"
    /\ nOps < MaxOps
    /\ pkg.dir # "file"
    /\ nOps' = nOps + 1
    /\ pkg' = [pkg EXCEPT !.dir = "dir"]
    /\ sign' = [Idle EXCEPT !.pc = "compress", !.video = video, !.width = DefaultWidth,
                            !.clock = nOps + 1,
                            !.original_video_hash = hash_file(video)]
    /\ incomplete' = TRUE
    /\ Verifier /\ Library /\ UNCHANGED lastSigned

\* Lines 61-66.  A source that cannot be decoded fails here (see SignFail).
SignCompress ==
    /\ Quiet
    /\ sign.pc = "compress"
    /\ compress_video(sign.video, sign.width, 0) # Raise
    /\ LET digest == compress_video(sign.video, sign.width, 0) IN
       /\ pkg' = [pkg EXCEPT !.digest_video = digest]
       /\ sign' = [sign EXCEPT !.pc = "audio", !.digest_video_hash = hash_file(digest)]
    /\ Verifier /\ Library /\ UNCHANGED <<nOps, lastSigned, incomplete>>

\* Lines 68-79.
SignAudio ==
    /\ Quiet
    /\ sign.pc = "audio"
    /\ LET file == save_audio_fingerprint(create_audio_fingerprint(sign.video)) IN
       /\ pkg' = [pkg EXCEPT !.audio_fingerprint = file]
       /\ sign' = [sign EXCEPT !.pc = "metadata", !.audio_fingerprint_hash = hash_file(file)]
    /\ Verifier /\ Library /\ UNCHANGED <<nOps, lastSigned, incomplete>>

\* Lines 81-92.
SignMetadata ==
    /\ Quiet
    /\ sign.pc = "metadata"
    /\ LET file == save_metadata(create_metadata(sign.video, sign.clock)) IN
       /\ pkg' = [pkg EXCEPT !.metadata = file]
       /\ sign' = [sign EXCEPT !.pc = "manifest", !.metadata_hash = hash_file(file)]
    /\ Verifier /\ Library /\ UNCHANGED <<nOps, lastSigned, incomplete>>

\* Lines 94-104.
SignManifest ==
    /\ Quiet
    /\ sign.pc = "manifest"
    /\ LET manifest == create_manifest(sign.original_video_hash, sign.digest_video_hash,
                                       sign.audio_fingerprint_hash, sign.metadata_hash, None)
       IN /\ pkg' = [pkg EXCEPT !.manifest = save_manifest(manifest)]
          /\ sign' = [sign EXCEPT !.pc = "signature", !.manifest = manifest]
    /\ Verifier /\ Library /\ UNCHANGED <<nOps, lastSigned, incomplete>>

\* Lines 106-115.
SignSignature ==
    /\ Quiet
    /\ sign.pc = "signature"
    /\ pkg' = [pkg EXCEPT !.signature = save_signature(create_signature(sign.manifest))]
    /\ sign' = Idle
    /\ lastSigned' = IF sign.undisturbed THEN <<[video |-> sign.video, pkg |-> pkg']>>
                      ELSE <<>>
    /\ incomplete' = FALSE
    /\ Verifier /\ Library /\ UNCHANGED nOps

\* The mutant of SignFail: the failing call removes its package directory.
SignFailCleanup ==
    /\ Quiet
    /\ sign.pc # "idle"
    /\ sign' = Idle
    /\ pkg' = NoPackage
    /\ Verifier /\ Library /\ UNCHANGED <<nOps, lastSigned, incomplete>>

\* Any step of sign_video raises (the encoder, the audio extraction, a
\* write): the call ends and the directory stays as it is.
SignFail ==
    /\ Quiet
    /\ sign.pc # "idle"
    /\ sign' = Idle
    /\ Verifier /\ Library /\ UNCHANGED <<pkg, nOps, lastSigned, incomplete>>

(***************************************************************************)
(* A caller runs verify_video_digest on the package as it is now.          *)
(***************************************************************************)
SsimThresholds == {DefaultSsimThreshold, CliSsimThreshold}

\* compute_ssim is run only when the hashes differ; then the stats are
\* those of the recreated digest against the stored one.
StatsFor(video, enc) ==
    LET recreated == compress_video(video, DefaultWidth, enc) IN
    IF recreated # Raise THEN SsimStats(recreated, pkg.digest_video) ELSE {Raise}

\* Beside the result are kept the inputs the call came to use: the video
\* once it was read, the recreated digest once compress_video has written
\* it, the threshold once a score was compared with it.
Returned(out, video, threshold, enc) ==
    << [out |-> out,
        video |-> video,
        recreated |-> IF "hash_file" \in Range(out.steps)
                      THEN compress_video(video, DefaultWidth, enc) ELSE None,
        ssim_threshold |-> IF "worst_windows" \in DOMAIN out.details
                           THEN threshold ELSE 0] >>

\* The call runs steps 1 and 2, and returns from them on a failure.
VerifyPackage ==
    /\ Quiet
    /\ LET Steps(p) ==
             IF p.returned
             THEN /\ result' = Returned(VerificationResult(FALSE, p.checks, EmptyDict,
                                                           p.errors, <<>>),
                                        None, 0, 0)
                  /\ UNCHANGED verify
             ELSE /\ verify' = <<p>>
                  /\ UNCHANGED result
       IN Steps(PackageChecks(pkg))
    /\ Library /\ UNCHANGED <<pkg, sign, nOps, lastSigned, incomplete>>

\* The call runs steps 3 to 6 on its video_path and returns.  The video and
\* the threshold are arguments of the call; they are first read here.
VerifyDigest(video, threshold, enc) ==
    /\ verify # <<>>
    /\ \E stats \in StatsFor(video, enc) :
         result' = Returned(DigestChecks(verify[1], pkg, video, DefaultWidth,
                                         threshold, enc, stats),
                            video, threshold, enc)
    /\ verify' = <<>>
    /\ Library /\ UNCHANGED <<pkg, sign, nOps, lastSigned, incomplete>>

\* The caller is done with the result.
Return ==
    /\ result # <<>>
    /\ result' = <<>>
    /\ Library /\ UNCHANGED <<pkg, sign, verify, nOps, lastSigned, incomplete>>

(***************************************************************************)
(* The package is modified from outside.                                   *)
(***************************************************************************)
MayEdit == Quiet /\ nOps < MaxOps /\ pkg.dir = "dir"

Edit(newPkg) ==
    /\ newPkg # pkg
    /\ pkg' = newPkg
    /\ nOps' = nOps + 1
    /\ sign' = IF sign.pc = "idle" THEN sign ELSE [sign EXCEPT !.undisturbed = FALSE]
    /\ Verifier /\ Library /\ UNCHANGED <<lastSigned, incomplete>>

PackageFiles == {"digest_video", "audio_fingerprint", "metadata", "manifest", "signature"}

DeleteFile(f) == MayEdit /\ Edit([pkg EXCEPT ![f] = NoFile])

RemovePackage(kind) == MayEdit /\ Edit([NoPackage EXCEPT !.dir = kind])

\* digest_video.mp4 is overwritten: with bytes that are no video, or with
\* the digest of some source.
ReplaceDigest(bytes) ==
    /\ MayEdit
    /\ pkg.digest_video # NoFile
    /\ Edit([pkg EXCEPT !.digest_video = bytes])

\* A JSON file that holds the mapping v is written back with one more field.
EditedJson(v) ==
    JsonDumps(JObj(DictSet(v[2], "user_identity", JStr(Lit("mallory")))), FALSE, TRUE)

EditBlob(f) ==
    /\ MayEdit
    /\ LET Rewrite(v) == IsObj(v) /\ Edit([pkg EXCEPT ![f] = EditedJson(v)])
       IN Rewrite(JsonLoad(pkg[f]))

\* manifest.json, which holds the mapping v, is rewritten: truncated, with a
\* JSON string in place of the mapping, re-serialised compactly with sorted
\* keys, or with its package_id changed.
EditedManifest(v, kind) ==
    CASE kind = "truncated" -> <<TokOpen, Ws>>
      [] kind = "not_a_dict" -> <<JStr(Lit("manifest")), Ws>>
      [] kind = "reserialised" -> JsonDumps(v, TRUE, FALSE)
      [] kind = "package_id" ->
            JsonDumps(JObj(DictSet(v[2], "package_id", JStr(Lit("0000000000000000")))),
                      FALSE, TRUE)

EditManifest(kind) ==
    /\ MayEdit
    /\ LET Rewrite(v) == IsObj(v) /\ Edit([pkg EXCEPT !.manifest = EditedManifest(v, kind)])
       IN Rewrite(JsonLoad(pkg.manifest))

RECURSIVE DictDel(_, _)
DictDel(pairs, k) ==
    IF pairs = <<>> THEN <<>>
    ELSE IF Head(pairs)[1] = k THEN Tail(pairs)
    ELSE <<Head(pairs)>> \o DictDel(Tail(pairs), k)

\* signature.json, which holds the mapping v, is rewritten: truncated, with
\* another algorithm named or none, with another manifest_hash or none.
EditedSignature(v, kind) ==
    LET Written(pairs) == JsonDumps(JObj(pairs), FALSE, TRUE) IN
    CASE kind = "truncated" -> <<TokOpen, Ws>>
      [] kind = "algorithm" -> Written(DictSet(v[2], "algorithm", JStr(Lit("ECDSA-P256"))))
      [] kind = "no_algorithm" -> Written(DictDel(v[2], "algorithm"))
      [] kind = "manifest_hash" -> Written(DictSet(v[2], "manifest_hash", JStr(Lit("0000"))))
      [] kind = "no_manifest_hash" -> Written(DictDel(v[2], "manifest_hash"))

EditSignature(kind) ==
    /\ MayEdit
    /\ LET Rewrite(v) == IsObj(v) /\ Edit([pkg EXCEPT !.signature = EditedSignature(v, kind)])
       IN Rewrite(JsonLoad(pkg.signature))

\* The package is signed again by a signer that passes digest_properties to
\* create_manifest: the digest's entry of the manifest v gets a frame_count
\* (signature.py, lines 52-54), and signature.json is written for the new
\* manifest.
WithFrameCount(v, frame_count) ==
    LET Entry(files, entry) ==
          JObj(DictSet(v[2], "files",
               JObj(DictSet(files[2], "digest_video.mp4",
                    JObj(DictSet(entry[2], "frame_count", JNum(frame_count)))))))
        Files(files) == Entry(files, DictGet(files, "digest_video.mp4", JObj(<<>>)))
    IN Files(DictGet(v, "files", JObj(<<>>)))

Repackage(frame_count) ==
    /\ MayEdit
    /\ pkg.signature # NoFile
    /\ LET Rewrite(v) ==
             /\ IsObj(v)
             /\ DictGet(DigestEntry(v), "sha256", None)[1] = "s"
             /\ Edit([pkg EXCEPT !.manifest = save_manifest(WithFrameCount(v, frame_count)),
                                 !.signature = save_signature(
                                     create_signature(WithFrameCount(v, frame_count)))])
       IN Rewrite(JsonLoad(pkg.manifest))

(***************************************************************************)
(* The specification of signing, modifying and verifying one package.      *)
(***************************************************************************)
Init ==
    /\ pkg = NoPackage
    /\ sign = Idle
    /\ verify = <<>>
    /\ result = <<>>
    /\ nOps = 0
    /\ lastSigned = <<>>
    /\ incomplete = FALSE
    /\ call = None
    /\ ret = <<>>

Next ==
    \/ \E video \in VideoPaths : SignStart(video)
    \/ SignCompress
    \/ SignAudio
    \/ SignMetadata
    \/ SignManifest
    \/ SignSignature
    \/ SignFail
    \/ VerifyPackage
    \/ \E video \in VideoPaths, threshold \in SsimThresholds, enc \in EncVariants :
          VerifyDigest(video, threshold, enc)
    \/ Return
    \/ \E f \in PackageFiles : DeleteFile(f)
    \/ \E kind \in {"absent", "file"} : RemovePackage(kind)
    \/ \E bytes \in {Garbage} \cup {compress_video(v, DefaultWidth, 0) : v \in SourceVideos} :
          ReplaceDigest(bytes)
    \/ \E f \in {"audio_fingerprint", "metadata"} : EditBlob(f)
    \/ \E kind \in {"truncated", "not_a_dict", "reserialised", "package_id"} :
          EditManifest(kind)
    \/ \E kind \in {"truncated", "algorithm", "no_algorithm", "manifest_hash",
                    "no_manifest_hash"} : EditSignature(kind)
    \/ \E frame_count \in 1..MaxFrames : Repackage(frame_count)

Spec == Init /\ [][Next]_vars

(***************************************************************************)
(* The library functions of signature.py on their own: a manifest is made  *)
(* by create_manifest, signed, saved, reloaded and checked as step 2 of    *)
(* the verifier checks it.                                                 *)
(***************************************************************************)
DigestProperties ==
    {None} \cup
    { JObj(props) : props \in
        { <<>>,
          << <<"frame_count", JNum(2)>> >>,
          << <<"fps", JNum(30)>> >>,
          << <<"duration", JNum(1)>> >>,
          << <<"frame_count", JNum(2)>>, <<"fps", JNum(30)>> >>,
          << <<"duration", JNum(1)>>, <<"frame_count", JNum(2)>> >>,
          << <<"fps", JNum(30)>>, <<"duration", JNum(1)>> >>,
          << <<"duration", JNum(1)>>, <<"fps", JNum(30)>>, <<"frame_count", JNum(2)>> >> } }

Manifests ==
    { create_manifest(hash_file(video), hash_file(compress_video(video, DefaultWidth, enc)),
                      hash_file(save_audio_fingerprint(create_audio_fingerprint(video))),
                      hash_file(save_metadata(create_metadata(other, 1))),
                      digest_properties) :
        video \in SourceVideos, other \in SourceVideos, enc \in EncVariants,
        digest_properties \in DigestProperties }

InitManifest ==
    /\ pkg = NoPackage
    /\ sign = Idle
    /\ verify = <<>>
    /\ result = <<>>
    /\ nOps = 0
    /\ lastSigned = <<>>
    /\ incomplete = FALSE
    /\ call \in Manifests
    /\ ret = <<>>

\* signature = create_signature(call); both are saved, and step 2 of the
\* verifier is run on the two files.
SignatureRoundTrip ==
    /\ ret = <<>>
    /\ LET signature == create_signature(call) IN
       ret' = << [signature |-> signature,
                  manifest_file |-> save_manifest(call),
                  manifest_integrity |-> ManifestIntegrity(save_manifest(call),
                                                           save_signature(signature))] >>
    /\ UNCHANGED <<pkg, sign, verify, result, nOps, lastSigned, incomplete, call>>

NextManifest == SignatureRoundTrip

SpecManifest == InitManifest /\ [][NextManifest]_vars

(***************************************************************************)
(* calculate_manifest_hash on manifests that are equal as mappings: the    *)
(* manifest of `call` is rebuilt with its keys inserted in another order   *)
(* at every level, written to disk with or without whitespace, loaded, and *)
(* hashed.                                                                 *)
(***************************************************************************)
RECURSIVE ReverseSeq(_)
ReverseSeq(q) == IF q = <<>> THEN <<>> ELSE Append(ReverseSeq(Tail(q)), Head(q))

\* The same mapping with the keys of every dict inserted in another order.
RECURSIVE Reordered(_, _)
Reordered(v, order) ==
    IF ~IsObj(v) THEN v
    ELSE LET Inner(pairs) == [i \in 1..Len(pairs) |->
                                <<pairs[i][1], Reordered(pairs[i][2], order)>>]
         IN JObj(Inner(CASE order = "same" -> v[2]
                         [] order = "reversed" -> ReverseSeq(v[2])
                         [] order = "rotated" ->
                              IF v[2] = <<>> THEN <<>> ELSE Append(Tail(v[2]), Head(v[2]))))

\* Python's == on two JSON values: dicts are equal when they have the same
\* keys with equal values, whatever the insertion order.
RECURSIVE MappingEq(_, _)
MappingEq(a, b) ==
    IF IsObj(a) /\ IsObj(b)
    THEN /\ Len(a[2]) = Len(b[2])
         /\ \A i \in 1..Len(a[2]) :
               /\ HasKey(b[2], a[2][i][1])
               /\ MappingEq(a[2][i][2], DictGet(b, a[2][i][1], None))
    ELSE a = b

Canonicalize(order, indent) ==
    /\ ret = <<>>
    /\ LET Hashed(file, loaded) ==
             ret' = << [file |-> file,
                        loaded |-> loaded,
                        manifest_hash |-> calculate_manifest_hash(loaded),
                        original_hash |-> calculate_manifest_hash(call),
                        again |-> calculate_manifest_hash(
                                      JsonLoad(calculate_manifest_hash(loaded)[2]))] >>
           Written(file) == Hashed(file, JsonLoad(file))
       IN Written(JsonDumps(Reordered(call, order), FALSE, indent))
    /\ UNCHANGED <<pkg, sign, verify, result, nOps, lastSigned, incomplete, call>>

NextCanonical ==
    \E order \in {"same", "reversed", "rotated"}, indent \in BOOLEAN :
        Canonicalize(order, indent)

SpecCanonical == InitManifest /\ [][NextCanonical]_vars

(***************************************************************************)
(* The three windowed comparators on their own: compare_perceptual_hashes  *)
(* and compare_frame_statistics of fingerprints.py and compute_ssim of     *)
(* verifier.py, each called once on the arguments of `call`.               *)
(***************************************************************************)
MaxHashFrames == 3   \* hash data holds 0..MaxHashFrames frames
MaxStatFrames == 3   \* frame statistics hold 0..MaxStatFrames frames
MaxScores == 4       \* the SSIM stats file holds 0..MaxScores scores

\* Three 64-bit hashes: they differ in 5, 9 and 4 bits.
HashValues ==
    { <<0, 0, 0, 0, 0, 0, 0, 0>>, <<31, 0, 0, 0, 0, 0, 0, 0>>, <<255, 1, 0, 0, 0, 0, 0, 0>> }

\* b''.join(hashes), fingerprints.py lines 77 and 143.
RECURSIVE JoinBytes(_)
JoinBytes(hashes) ==
    IF hashes = <<>> THEN <<>> ELSE Head(hashes) \o JoinBytes(Tail(hashes))

\* What dhash.bin or phash.bin can hold: the hashes of 0..MaxHashFrames
\* frames, whole or with the last byte missing.
HashData ==
    LET whole == { JoinBytes(hashes) :
                     hashes \in UNION { [1..n -> HashValues] : n \in 0..MaxHashFrames } }
    IN whole \cup { SubSeq(data, 1, Len(data) - 1) : data \in whole \ {<<>>} }

\* The statistics of three frames: the second differs from the first by
\* 0.30 in u_mean, the third by 60.00 in y_mean.
StatFrames ==
    { <<10000, 2000, 12800, 500, 12800, 500>>,
      <<10000, 2000, 12830, 500, 12800, 500>>,
      <<16000, 2000, 12800, 500, 12800, 500>> }

StatsData == UNION { [1..n -> StatFrames] : n \in 0..MaxStatFrames }

\* The scores of the SSIM stats file, in hundredths.
ScoreLevels == {91, 93, 99}
ScoreData == UNION { [1..n -> ScoreLevels] : n \in 0..MaxScores }

WindowSizes == {1, 2, DefaultWindowSize}

InitComparators ==
    /\ pkg = NoPackage
    /\ sign = Idle
    /\ verify = <<>>
    /\ result = <<>>
    /\ nOps = 0
    /\ lastSigned = <<>>
    /\ incomplete = FALSE
    /\ ret = <<>>
    /\ \/ call \in { [fn |-> "compare_perceptual_hashes", computed_data |-> c,
                       stored_data |-> d, window_size |-> w, fps |-> DefaultFps] :
                        c \in HashData, d \in HashData, w \in WindowSizes }
       \/ call \in { [fn |-> "compare_frame_statistics", computed_stats |-> c,
                       stored_stats |-> d, window_size |-> w, fps |-> DefaultFps] :
                        c \in StatsData, d \in StatsData, w \in {1, 2} }
       \/ call \in { [fn |-> "compute_ssim", ssim_scores |-> c, window_size |-> w,
                       fps |-> DefaultFps, ssim_threshold |-> t] :
                        c \in ScoreData, w \in WindowSizes, t \in SsimThresholds }

ComparePerceptualHashes ==
    /\ ret = <<>>
    /\ call.fn = "compare_perceptual_hashes"
    /\ ret' = << compare_perceptual_hashes(call.computed_data, call.stored_data,
                                           call.window_size, call.fps) >>
    /\ UNCHANGED <<pkg, sign, verify, result, nOps, lastSigned, incomplete, call>>

CompareFrameStatistics ==
    /\ ret = <<>>
    /\ call.fn = "compare_frame_statistics"
    /\ ret' = << compare_frame_statistics(call.computed_stats, call.stored_stats,
                                          call.window_size, call.fps) >>
    /\ UNCHANGED <<pkg, sign, verify, result, nOps, lastSigned, incomplete, call>>

\* compute_ssim on the scores of the stats file, and step 5 of
\* verify_video_digest (lines 646-668) on what it returns: ssim is the
\* tuple returned or Raise, ssim_score the check recorded.
ComputeSsim ==
    /\ ret = <<>>
    /\ call.fn = "compute_ssim"
    /\ LET Step5(ssim) ==
             ret' = << [ssim |-> ssim,
                        ssim_score |-> IF ssim = Raise THEN FALSE
                                       ELSE SsimMeets(ssim[1], call.ssim_threshold)] >>
       IN Step5(compute_ssim(call.ssim_scores, call.window_size, call.fps))
    /\ UNCHANGED <<pkg, sign, verify, result, nOps, lastSigned, incomplete, call>>

NextComparators ==
    \/ ComparePerceptualHashes
    \/ CompareFrameStatistics
    \/ ComputeSsim

SpecComparators == InitComparators /\ [][NextComparators]_vars

(***************************************************************************)
(* The audit clips: merge_overlapping_windows called once on the windows   *)
(* of `call`, and the verify command of cli.py on a candidate whose        *)
(* frames are like the signed ones but for one second.                     *)
(***************************************************************************)
MaxWindows == 3      \* merge_overlapping_windows is given 0..MaxWindows windows
MaxSeconds == 60     \* the candidate lasts MaxSeconds seconds at DefaultFps

\* Windows as the comparators report them, 60 half seconds being one
\* second at 30 fps: two that start at frame 0, one inside them, one that
\* starts 3 s and one 10 s after frame 60, and two whose padded start is
\* 5.0 s after the end of a window starting at 0.
EvidenceWindows ==
    { [start_frame |-> 0, end_frame |-> 19],
      [start_frame |-> 0, end_frame |-> 60],
      [start_frame |-> 30, end_frame |-> 40],
      [start_frame |-> 150, end_frame |-> 209],
      [start_frame |-> 214, end_frame |-> 220],
      [start_frame |-> 255, end_frame |-> 260],
      [start_frame |-> 360, end_frame |-> 419] }

WindowLists == UNION { [1..n -> EvidenceWindows] : n \in 0..MaxWindows }

\* The second of the candidate that differs, and the score of its frames.
BadSeconds == {0, 1, 44, 45, 46, MaxSeconds - 1}
LowScores == {50, 90}

\* The scores FFmpeg writes for the candidate: 1.0 on every frame but those
\* of the second bad_second.
CandidateScores(bad_second, low) ==
    [i \in 1..(MaxSeconds * DefaultFps) |->
        IF (i - 1) \div DefaultFps = bad_second THEN low ELSE 100]

InitEvidence ==
    /\ pkg = NoPackage
    /\ sign = Idle
    /\ verify = <<>>
    /\ result = <<>>
    /\ nOps = 0
    /\ lastSigned = <<>>
    /\ incomplete = FALSE
    /\ ret = <<>>
    /\ \/ call \in { [fn |-> "merge_overlapping_windows", windows |-> w, fps |-> DefaultFps] :
                        w \in WindowLists }
       \/ call \in { [fn |-> "verify", bad_second |-> t, low |-> l] :
                        t \in BadSeconds, l \in LowScores }

MergeOverlappingWindows ==
    /\ ret = <<>>
    /\ call.fn = "merge_overlapping_windows"
    /\ ret' = << merge_overlapping_windows(call.windows, call.fps) >>
    /\ UNCHANGED <<pkg, sign, verify, result, nOps, lastSigned, incomplete, call>>

\* The verify command on an intact package and the candidate: the digest
\* hashes differ, compute_ssim gives the verdict and the worst windows,
\* the frame counts agree, and the worst windows are merged into the audit
\* clips that are extracted.
VerifyCommand ==
    /\ ret = <<>>
    /\ call.fn = "verify"
    /\ LET Checks(ssim_score) ==
             Put(Put(Put(Put(Put(EmptyDict, "package_structure", TRUE),
                             "manifest_integrity", TRUE),
                         "digest_hash_match", FALSE),
                     "ssim_score", ssim_score),
                 "frame_count_match", TRUE)
           Verified(ssim) ==
             ret' = << [ssim_score |-> ssim[1],
                        worst_windows |-> ssim[3],
                        is_valid |-> OverallVerdict(Checks(SsimMeets(ssim[1], CliSsimThreshold))),
                        merged_clips |-> merge_overlapping_windows(ssim[3], DefaultFps)] >>
       IN Verified(compute_ssim(CandidateScores(call.bad_second, call.low),
                                DefaultWindowSize, DefaultFps))
    /\ UNCHANGED <<pkg, sign, verify, result, nOps, lastSigned, incomplete, call>>

NextEvidence ==
    \/ MergeOverlappingWindows
    \/ VerifyCommand

SpecEvidence == InitEvidence /\ [][NextEvidence]_vars

(***************************************************************************)
(* The scratch files of one call.  `call` holds the program of the call,   *)
(* the position in it, the scratch scopes that are open (a temporary       *)
(* directory, or a named temporary file kept until a finally clause) and   *)
(* the scratch files that exist; `ret` is how the call ended.              *)
(***************************************************************************)
Enter(scope, file) ==
    [op |-> "enter", name |-> scope, scope |-> scope, file |-> file, resume |-> 0, depth |-> 0]
Run(name, scope, file, resume, depth) ==
    [op |-> "run", name |-> name, scope |-> scope, file |-> file, resume |-> resume, depth |-> depth]
Exit(scope) ==
    [op |-> "exit", name |-> scope, scope |-> scope, file |-> "", resume |-> 0, depth |-> 0]

\* compute_ssim, verifier.py lines 104-216: the stats file is made, FFmpeg
\* runs, the file is parsed, and the finally clause unlinks it.  A step
\* that raises goes to the handler at `resume` (0: out of the function)
\* once the scopes above `depth` are left.
SsimProgram(resume, depth) ==
    << Enter("stats_file", "ssim_stats.log"),
       Run("ffmpeg_ssim", "", "", resume, depth),
       Run("parse_scores", "", "", resume, depth),
       Exit("stats_file") >>

\* verify_video_digest, lines 623-698: steps 3 to 6 inside the temporary
\* directory.  An exception of compress_video or hash_file goes to the
\* except of line 695, which returns a result; one of compute_ssim or of
\* the frame counts is caught inside the directory.
VerifyProgram(hash_match, manifest_frames) ==
    LET ssim(len) == IF hash_match THEN <<>> ELSE SsimProgram(3 + len + 1, 1)
        frames(after) ==
          << Run("frame_count_recreated", "", "", after, 1) >>
          \o IF manifest_frames THEN <<>>
             ELSE << Run("frame_count_stored", "", "", after, 1) >>
        Body(ssimLen, framesLen) ==
          << Enter("tmp_dir", ""),
             Run("compress_video", "tmp_dir", "recreated_digest.mp4",
                 3 + ssimLen + framesLen + 2, 0),
             Run("hash_file", "", "", 3 + ssimLen + framesLen + 2, 0) >>
          \o ssim(ssimLen)
          \o frames(3 + ssimLen + framesLen + 1)
          \o << Exit("tmp_dir") >>
    IN Body(IF hash_match THEN 0 ELSE 4, IF manifest_frames THEN 1 ELSE 2)

\* sign_video, signer.py lines 70-76: the audio is extracted into a
\* temporary directory and fingerprinted; the fingerprint is saved into
\* the package.
SignAudioProgram ==
    << Enter("temp_dir", ""),
       Run("extract_audio", "temp_dir", "audio.wav", 0, 0),
       Run("create_audio_fingerprint", "", "", 0, 0),
       Run("save_audio_fingerprint", "", "", 0, 0),
       Exit("temp_dir") >>

\* compute_region_fingerprints, regions.py lines 229-281: the video is
\* opened and a frame read, the cropped video is written to a named
\* temporary file and fingerprinted, the finally clause unlinks it.
RegionProgram ==
    << Run("open_video", "", "", 0, 0),
       Run("read_frame", "", "", 0, 0),
       Enter("tmp_path", "cropped.mp4"),
       Run("ffmpeg_crop", "", "", 0, 0),
       Run("compute_dhash", "", "", 0, 0),
       Run("compute_phash", "", "", 0, 0),
       Run("compute_frame_statistics", "", "", 0, 0),
       Exit("tmp_path") >>

ScratchCalls ==
    { [fn |-> "verify_video_digest", program |-> VerifyProgram(h, f)] : h, f \in BOOLEAN }
    \cup { [fn |-> "compute_ssim", program |-> SsimProgram(0, 0)],
           [fn |-> "sign_video", program |-> SignAudioProgram],
           [fn |-> "compute_region_fingerprints", program |-> RegionProgram] }

InitScratch ==
    /\ pkg = NoPackage
    /\ sign = Idle
    /\ verify = <<>>
    /\ result = <<>>
    /\ nOps = 0
    /\ lastSigned = <<>>
    /\ incomplete = FALSE
    /\ ret = <<>>
    /\ \E c \in ScratchCalls :
          call = [fn |-> c.fn, program |-> c.program, pc |-> 1, scopes |-> <<>>,
                  files |-> {}, written |-> {}, raising |-> FALSE, resume |-> 0, depth |-> 0]

Running == ret = <<>> /\ ~call.raising /\ call.pc <= Len(call.program)
Instr == call.program[call.pc]
Rest == UNCHANGED <<pkg, sign, verify, result, nOps, lastSigned, incomplete>>

\* The mutant of Unwound: a scope left by an exception keeps its files.
UnwoundKept(files, scope) == files

\* What a with block or a finally clause leaves of the scratch files when
\* the scope is left: the directory and its content, or the file, is removed.
Removed(files, scope) == {f \in files : f[1] # scope}
Unwound(files, scope) == {f \in files : f[1] # scope}

\* tempfile.TemporaryDirectory() or NamedTemporaryFile(delete=False).
ScratchEnter ==
    /\ Running /\ Instr.op = "enter"
    /\ LET made == IF Instr.file = "" THEN {} ELSE {<<Instr.scope, Instr.file>>} IN
       call' = [call EXCEPT !.pc = @ + 1,
                            !.scopes = Append(@, Instr.scope),
                            !.files = @ \cup made,
                            !.written = @ \cup made]
    /\ UNCHANGED ret /\ Rest

\* A step of the body: it succeeds and has written its file, or raises,
\* with its file written in part or not at all.
ScratchRun(ok, partial) ==
    /\ Running /\ Instr.op = "run"
    /\ LET made == IF Instr.file # "" /\ (ok \/ partial)
                   THEN {<<Instr.scope, Instr.file>>} ELSE {} IN
       call' = IF ok
               THEN [call EXCEPT !.pc = @ + 1, !.files = @ \cup made, !.written = @ \cup made]
               ELSE [call EXCEPT !.files = @ \cup made, !.written = @ \cup made,
                                 !.raising = TRUE,
                                 !.resume = Instr.resume, !.depth = Instr.depth]
    /\ UNCHANGED ret /\ Rest

\* The end of a with block, or a finally clause, reached without exception.
ScratchExit ==
    /\ Running /\ Instr.op = "exit"
    /\ call' = [call EXCEPT !.pc = @ + 1,
                            !.scopes = SubSeq(@, 1, Len(@) - 1),
                            !.files = Removed(@, Instr.scope)]
    /\ UNCHANGED ret /\ Rest

\* An exception leaves the innermost open scope.
ScratchUnwind ==
    /\ ret = <<>> /\ call.raising
    /\ Len(call.scopes) > call.depth
    /\ call' = [call EXCEPT !.scopes = SubSeq(@, 1, Len(@) - 1),
                            !.files = Unwound(@, call.scopes[Len(call.scopes)])]
    /\ UNCHANGED ret /\ Rest

\* An except clause of the function takes the exception.
ScratchCatch ==
    /\ ret = <<>> /\ call.raising
    /\ Len(call.scopes) = call.depth
    /\ call.resume # 0
    /\ call' = [call EXCEPT !.raising = FALSE, !.pc = call.resume]
    /\ UNCHANGED ret /\ Rest

ScratchReturn ==
    /\ ret = <<>> /\ ~call.raising
    /\ call.pc > Len(call.program)
    /\ ret' = << "returned" >>
    /\ UNCHANGED call /\ Rest

ScratchRaise ==
    /\ ret = <<>> /\ call.raising
    /\ Len(call.scopes) = call.depth
    /\ call.resume = 0
    /\ ret' = << "raised" >>
    /\ UNCHANGED call /\ Rest

NextScratch ==
    \/ ScratchEnter
    \/ \E ok, partial \in BOOLEAN : ScratchRun(ok, partial)
    \/ ScratchExit
    \/ ScratchUnwind
    \/ ScratchCatch
    \/ ScratchReturn
    \/ ScratchRaise

SpecScratch == InitScratch /\ [][NextScratch]_vars

(***************************************************************************)
(* The claims.  They are stated of the result a caller holds; the package  *)
(* is then still as the call found it (Quiet).  Scores are in hundredths.  *)
(***************************************************************************)
Held == result # <<>>
Out == result[1].out
\* checks.get(k, False): a check that was never recorded counts as false.
Check(k) == Get(Out.checks, k, FALSE)
HasError(e) == e \in Range(Out.errors)
\* Step 6 was passed: no exception sent the call to the except of lines 695-698.
ReachedVerdict == "frame_count" \in Range(Out.steps)
\* The package is as the last sign_video, undisturbed, left it.
Intact == lastSigned # <<>> /\ pkg = lastSigned[1].pkg
\* The sha256 the manifest on disk records for the artifact `name`.
ManifestSha(fs, name) ==
    LET files == DictGet(JsonLoad(fs.manifest), "files", JObj(<<>>))
        entry == IF files = Raise THEN Raise ELSE DictGet(files, name, JObj(<<>>))
    IN IF entry = Raise THEN Raise ELSE DictGet(entry, "sha256", None)

\* C1: a result of verify_video_digest that reached the final verdict has
\* is_valid equal to package_structure AND manifest_integrity AND
\* frame_count_match AND (digest_hash_match OR ssim_score), a check never
\* recorded counting as false; a result of an early return has is_valid false.
C1_OverallVerdict ==
    Held =>
      IF ReachedVerdict
      THEN Out.is_valid <=>
             /\ Check("package_structure")
             /\ Check("manifest_integrity")
             /\ Check("frame_count_match")
             /\ (Check("digest_hash_match") \/ Check("ssim_score"))
      ELSE ~Out.is_valid

\* C1 witness: a verdict was reached in which the content matched, the
\* package passed, and the frame counts alone did not.
C1_Witness ==
    /\ Held /\ ReachedVerdict
    /\ Check("package_structure") /\ Check("manifest_integrity") /\ Check("ssim_score")
    /\ ~Check("frame_count_match")
    /\ ~Out.is_valid

\* C2: a verify of the video a completed sign_video signed, on the package
\* as that sign left it, with the encoder yielding the bytes it yielded at
\* sign time, returns is_valid with package_structure, manifest_integrity,
\* digest_hash_match, ssim_score and frame_count_match all true.
C2_SignThenVerify ==
    ( /\ Held /\ Intact
      /\ result[1].video \in {None, lastSigned[1].video}
      /\ result[1].recreated \in {None, compress_video(lastSigned[1].video, DefaultWidth, 0)} )
    => /\ Out.is_valid
       /\ \A k \in {"package_structure", "manifest_integrity", "digest_hash_match",
                    "ssim_score", "frame_count_match"} :
             k \in DOMAIN Out.checks /\ Out.checks[k]

\* C2 witness: such a verify has returned, and the hashes matched.
C2_Witness ==
    /\ Held /\ Intact
    /\ result[1].video = lastSigned[1].video
    /\ result[1].recreated = pkg.digest_video
    /\ Out.is_valid /\ Check("digest_hash_match")

\* C3 (the claim as stated): while a sign_video that has started has not
\* written its signature.json (it may have aborted, the directory may have
\* existed before), a verify of the directory records package_structure
\* false and returns is_valid false.
C3_IncompleteRejected ==
    (Held /\ incomplete) => (~Check("package_structure") /\ ~Out.is_valid)

\* C4: when the verifier reaches step 2 and the canonical hash of the
\* manifest on disk differs from the signature's manifest_hash, it records
\* manifest_integrity false, the error "Manifest integrity check failed",
\* and is_valid false, whatever the content and frame-count checks say.
ManifestHashDiffers(fs) ==
    LET manifest == JsonLoad(fs.manifest)
        signature == JsonLoad(fs.signature)
    IN /\ fs.dir = "dir" /\ fs.digest_video # NoFile
       /\ manifest # Raise /\ IsObj(signature)
       /\ DictGet(signature, "manifest_hash", JStr(Lit("")))
            # JStr(Sha256(JsonDumps(manifest, TRUE, FALSE)))

C4_IntegrityMismatch ==
    (Held /\ ManifestHashDiffers(pkg)) =>
        /\ "manifest_integrity" \in DOMAIN Out.checks
        /\ ~Out.checks["manifest_integrity"]
        /\ HasError("Manifest integrity check failed")
        /\ ~Out.is_valid

\* C4 witness: the hashes differed, the content and the frame counts matched.
C4_Witness ==
    /\ Held /\ ManifestHashDiffers(pkg)
    /\ Check("digest_hash_match") /\ Check("frame_count_match")
    /\ ~Out.is_valid

\* C5: for a manifest m of create_manifest, create_signature(m) has
\* manifest_hash equal to the SHA-256 of the canonical JSON of m (sorted
\* keys, compact separators), and step 2 of the verifier on m as saved and
\* reloaded, against that signature as saved and reloaded, finds a match.
C5_SignatureRoundTrip ==
    ret # <<>> =>
        /\ DictGet(ret[1].signature, "manifest_hash", None)
             = JStr(Sha256(JsonDumps(call, TRUE, FALSE)))
        /\ JsonLoad(ret[1].manifest_file) = call
        /\ ret[1].manifest_integrity = "match"

\* C5 witness: a manifest whose digest entry carries a frame_count has gone
\* through the round trip.
C5_Witness ==
    /\ ret # <<>>
    /\ ManifestSha([manifest |-> ret[1].manifest_file], "digest_video.mp4") # None
    /\ DictGet(DigestEntry(call), "frame_count", None) = JNum(2)
    /\ ret[1].manifest_integrity = "match"

\* C6 (the claim as stated): on a structural error (the package directory
\* missing or not a directory; manifest.json, signature.json or
\* digest_video.mp4 missing; manifest or signature unreadable) the verifier
\* returns before any recompression with is_valid false, a check flagged
\* false in checks, and an error recorded.
StructuralError(fs) ==
    \/ fs.dir # "dir"
    \/ fs.manifest = NoFile \/ fs.signature = NoFile \/ fs.digest_video = NoFile
    \/ JsonLoad(fs.manifest) = Raise
    \/ JsonLoad(fs.signature) = Raise

C6_StructuralErrorsFlagged ==
    (Held /\ StructuralError(pkg)) =>
        /\ Out.steps = <<>>
        /\ ~Out.is_valid
        /\ \E k \in DOMAIN Out.checks : ~Out.checks[k]
        /\ Out.errors # <<>>

\* C7 (the claim as stated): when the sha256 the manifest records for
\* digest_video.mp4, audio_fingerprint.json or metadata.json is not the
\* hash of the bytes on disk, the result is not is_valid.
ArtifactModified(fs) ==
    \E a \in { <<"digest_video.mp4", "digest_video">>,
               <<"audio_fingerprint.json", "audio_fingerprint">>,
               <<"metadata.json", "metadata">> } :
        /\ fs[a[2]] # NoFile
        /\ ManifestSha(fs, a[1])[1] = "s"
        /\ ManifestSha(fs, a[1]) # JStr(hash_file(fs[a[2]]))

C7_ArtifactsRehashed ==
    (Held /\ ArtifactModified(pkg)) => ~Out.is_valid

\* C8 (the claim as stated): for a signature whose algorithm is not SHA-256
\* or is absent, the verifier does not record manifest_integrity true and
\* does not return is_valid true.
UnknownAlgorithm(fs) ==
    LET signature == JsonLoad(fs.signature) IN
    /\ IsObj(signature)
    /\ DictGet(signature, "algorithm", None) # JStr(Lit("SHA-256"))

C8_UnknownAlgorithmRefused ==
    (Held /\ UnknownAlgorithm(pkg)) => (~Check("manifest_integrity") /\ ~Out.is_valid)

\* C9: when the hash of the recreated digest equals the digest sha256 of
\* the manifest, the verifier records digest_hash_match and ssim_score true
\* and details.ssim_score 1.0, does not call compute_ssim (no worst_windows
\* in details), and goes on to the frame-count check, which it performs.
HashesEqual ==
    /\ Held
    /\ result[1].recreated # None
    /\ ManifestSha(pkg, "digest_video.mp4") = JStr(Sha256(result[1].recreated))

C9_HashMatchFastPath ==
    HashesEqual =>
        /\ Check("digest_hash_match") /\ Check("ssim_score")
        /\ "ssim_score" \in DOMAIN Out.details
        /\ Out.details["ssim_score"] = <<100, 1>>
        /\ "worst_windows" \notin DOMAIN Out.details
        /\ Out.steps = <<"compress_video", "hash_file", "frame_count">>
        /\ "frame_count_match" \in DOMAIN Out.checks

\* C9 witness: the hashes were equal and the frame-count check, performed
\* all the same, failed.
C9_Witness ==
    /\ HashesEqual
    /\ Check("digest_hash_match")
    /\ "frame_count_match" \in DOMAIN Out.checks
    /\ ~Out.checks["frame_count_match"]

\* C10 (the claim as stated): with the default parameters of
\* verify_video_digest, an intact package and equal frame counts, a
\* candidate whose recreated digest differs in hash from the stored one and
\* whose worst-window SSIM mean is at least 0.92 gets digest_hash_match
\* false, ssim_score true and is_valid true.
C10_DefaultThreshold ==
    ( /\ Held /\ Intact
      /\ "worst_windows" \in DOMAIN Out.details
      /\ result[1].ssim_threshold = DefaultSsimThreshold
      /\ MeanGeq(Out.details["ssim_score"], 92)
      /\ Check("frame_count_match") )
    => (~Check("digest_hash_match") /\ Check("ssim_score") /\ Out.is_valid)

\* C11: in the frame-count check the stored frame count is the manifest's
\* files["digest_video.mp4"].frame_count when that field is present and the
\* probed frame count of the digest on disk otherwise; frame_count_match is
\* recorded true exactly when the recreated digest's frame count equals it,
\* a difference or a failed probe gives frame_count_match false, an error
\* and is_valid false, whatever the hash and SSIM checks say, and the call
\* returns a result.
StepSixReached ==
    /\ Held
    /\ result[1].recreated \notin {None, Raise}
    /\ ManifestSha(pkg, "digest_video.mp4") # Raise

ManifestFrameCount(fs) ==
    DictGet(DigestEntry(JsonLoad(fs.manifest)), "frame_count", None)

C11_FrameCountCheck ==
    StepSixReached =>
      LET Expected(stored, recreated) ==
            /\ "frame_count_match" \in DOMAIN Out.checks
            /\ Out.checks["frame_count_match"] <=> (stored # Raise /\ recreated = stored)
            /\ (stored = Raise) => HasError("Failed to verify frame counts")
            /\ (stored # Raise /\ recreated # stored) =>
                  (HasError("Frame count mismatch") /\ Out.details["stored_frame_count"] = stored)
            /\ ~Out.checks["frame_count_match"] => ~Out.is_valid
      IN Expected(IF ManifestFrameCount(pkg) # None THEN ManifestFrameCount(pkg)
                  ELSE IF IsVideo(pkg.digest_video) THEN JNum(pkg.digest_video[3])
                  ELSE Raise,
                  JNum(result[1].recreated[3]))

\* C11 witness: the manifest, validly signed, records a frame count that
\* is not the recreated digest's, while the digest on disk has that of the
\* recreated digest and the hashes match: frame_count_match is false and the
\* result invalid.
C11_Witness ==
    /\ StepSixReached
    /\ ManifestFrameCount(pkg) \notin {None, JNum(result[1].recreated[3])}
    /\ IsVideo(pkg.digest_video) /\ pkg.digest_video[3] = result[1].recreated[3]
    /\ Check("manifest_integrity") /\ Check("digest_hash_match")
    /\ ~Check("frame_count_match")
    /\ ~Out.is_valid

\* C12 (the claim as stated): every verification that reaches the content
\* check places the three fingerprint verdicts (dhash, phash, frame_stats)
\* in details.fingerprints.comparisons.
ContentCheckReached == Held /\ result[1].recreated \notin {None, Raise}

C12_FingerprintsCompared ==
    ContentCheckReached => "fingerprints" \in DOMAIN Out.details

\* C13 (the claim as stated): after sign_video has succeeded the package
\* holds fingerprints/dhash.bin, fingerprints/phash.bin and
\* fingerprints/frame_stats.json, and the signed manifest holds the
\* fingerprint sub-manifest.
C13_FingerprintsWritten ==
    Intact =>
        /\ pkg.dhash # NoFile /\ pkg.phash # NoFile /\ pkg.frame_stats # NoFile
        /\ HasKey(JsonLoad(pkg.manifest)[2], "fingerprints")

\* C14: every step of a running sign_video writes at most the one artifact
\* of its place in the order digest_video.mp4, audio_fingerprint.json,
\* metadata.json, manifest.json, signature.json and removes nothing;
\* manifest.json is written when the three artifacts have been hashed, it
\* records these hashes, and the artifacts are on disk with them unless
\* someone else changed the directory meanwhile; the call ends with the
\* write of signature.json; a call that fails ends at once and leaves the
\* directory exactly as it was.
SignStep == sign.pc # "idle" /\ sign' # sign /\ nOps' = nOps

ArtifactOfStep(pc) ==
    CASE pc = "compress" -> "digest_video"
      [] pc = "audio" -> "audio_fingerprint"
      [] pc = "metadata" -> "metadata"
      [] pc = "manifest" -> "manifest"
      [] pc = "signature" -> "signature"

StepAfter(pc) ==
    CASE pc = "compress" -> "audio"
      [] pc = "audio" -> "metadata"
      [] pc = "metadata" -> "manifest"
      [] pc = "manifest" -> "signature"
      [] pc = "signature" -> "idle"

SignOrderStep ==
    SignStep =>
      /\ sign'.pc \in {StepAfter(sign.pc), "idle"}
      /\ pkg'.dir = pkg.dir
      /\ \A f \in DOMAIN pkg \ {"dir"} :
            /\ pkg'[f] # pkg[f] => f = ArtifactOfStep(sign.pc)
            /\ pkg[f] # NoFile => pkg'[f] # NoFile
      /\ (sign.pc = "manifest" /\ sign'.pc = "signature") =>
            /\ pkg'.manifest # NoFile
            /\ ManifestSha(pkg', "digest_video.mp4") = JStr(sign.digest_video_hash)
            /\ ManifestSha(pkg', "audio_fingerprint.json") = JStr(sign.audio_fingerprint_hash)
            /\ ManifestSha(pkg', "metadata.json") = JStr(sign.metadata_hash)
            /\ sign.undisturbed =>
                  /\ hash_file(pkg.digest_video) = sign.digest_video_hash
                  /\ hash_file(pkg.audio_fingerprint) = sign.audio_fingerprint_hash
                  /\ hash_file(pkg.metadata) = sign.metadata_hash
                  /\ pkg.digest_video # NoFile /\ pkg.audio_fingerprint # NoFile
                  /\ pkg.metadata # NoFile
      /\ (sign.pc = "signature" /\ ~incomplete') =>
            /\ sign'.pc = "idle"
            /\ pkg'.signature # NoFile
            /\ sign.undisturbed => pkg.manifest = save_manifest(sign.manifest)
      /\ (sign'.pc = "idle" /\ incomplete') => pkg' = pkg

C14_SignOrder == [][SignOrderStep]_vars

\* C14 witness: a sign_video into a fresh directory has failed after the
\* audio fingerprint was written: the digest and the fingerprint are
\* there, manifest.json and signature.json are not.
C14_Witness ==
    /\ sign.pc = "idle" /\ incomplete /\ nOps = 1
    /\ pkg.dir = "dir"
    /\ pkg.digest_video # NoFile /\ pkg.audio_fingerprint # NoFile
    /\ pkg.manifest = NoFile /\ pkg.signature = NoFile

\* C15: verify_video_digest returns a result (overall boolean, booleans
\* per check, details, error strings) on every path.  A candidate that
\* cannot be recompressed gives digest_recreation false and an error; a
\* failure of the SSIM computation gives ssim_score false and an error, and
\* the frame-count check is still made; a failed probe gives
\* frame_count_match false and an error; a score below the threshold gives
\* ssim_score false, an error and is_valid false, leaves
\* details.worst_windows populated, and the frame-count check is still made.
HashesDiffer ==
    /\ StepSixReached
    /\ ManifestSha(pkg, "digest_video.mp4") # JStr(Sha256(result[1].recreated))

FalseCheck(k) == k \in DOMAIN Out.checks /\ ~Out.checks[k]

BelowThreshold ==
    /\ Held
    /\ "worst_windows" \in DOMAIN Out.details
    /\ ~MeanGeq(Out.details["ssim_score"], result[1].ssim_threshold)

C15_StructuredResult ==
    Held =>
      /\ Out.is_valid \in BOOLEAN
      /\ \A k \in DOMAIN Out.checks : Out.checks[k] \in BOOLEAN
      /\ \A i \in DOMAIN Out.errors : Out.errors[i] \in STRING
      /\ (result[1].video # None /\ ~IsVideo(result[1].video)) =>
            /\ FalseCheck("digest_recreation")
            /\ HasError("Failed to recreate digest video")
            /\ ~Out.is_valid
      /\ (HashesDiffer /\ SsimStats(result[1].recreated, pkg.digest_video) = {Raise}) =>
            /\ FalseCheck("ssim_score")
            /\ HasError("Failed to compute SSIM")
            /\ "frame_count_match" \in DOMAIN Out.checks
            /\ ~Out.is_valid
      /\ (StepSixReached /\ ManifestFrameCount(pkg) = None /\ ~IsVideo(pkg.digest_video)) =>
            /\ FalseCheck("frame_count_match")
            /\ HasError("Failed to verify frame counts")
            /\ ~Out.is_valid
      /\ BelowThreshold =>
            /\ FalseCheck("ssim_score")
            /\ HasError("SSIM score below threshold")
            /\ Out.details["worst_windows"] # <<>>
            /\ "frame_count_match" \in DOMAIN Out.checks
            /\ ~Out.is_valid

\* C15 witness: the score was below the threshold, the run went on, and
\* the frame-count check it then made passed.
C15_Witness ==
    /\ BelowThreshold
    /\ FalseCheck("ssim_score")
    /\ Check("frame_count_match")
    /\ Len(Out.details["worst_windows"]) = 1
    /\ ~Out.is_valid

\* C16 (the claim as stated): the result of a verification that ran
\* through all checks has the check keys package_structure,
\* manifest_integrity, original_video_hash, digest_hash_match, ssim_score
\* and frame_count_match.
C16_AllCheckKeys ==
    (Held /\ ReachedVerdict) =>
        {"package_structure", "manifest_integrity", "original_video_hash",
         "digest_hash_match", "ssim_score", "frame_count_match"} \subseteq DOMAIN Out.checks

\* C17: the canonical form of a manifest (sorted keys, compact separators)
\* is a fixed point of load-then-canonicalize, and two manifests that are
\* equal as nested mappings, whatever the insertion order of their keys and
\* the whitespace of the file they were loaded from, have the same
\* canonical form and the same manifest hash.
C17_CanonicalForm ==
    (ret # <<>> /\ MappingEq(ret[1].loaded, call)) =>
        /\ ret[1].manifest_hash = ret[1].original_hash
        /\ ret[1].manifest_hash[2] = JsonDumps(call, TRUE, FALSE)
        /\ ret[1].again = ret[1].manifest_hash
        /\ \A i \in 1..Len(ret[1].manifest_hash[2]) : ret[1].manifest_hash[2][i] # Ws

\* C17 witness: a manifest whose keys are in another order than the
\* original's, loaded from a file with whitespace, has the original's hash.
C17_Witness ==
    /\ ret # <<>>
    /\ ret[1].loaded # call /\ MappingEq(ret[1].loaded, call)
    /\ \E i \in 1..Len(ret[1].file) : ret[1].file[i] = Ws
    /\ ret[1].manifest_hash = ret[1].original_hash

\* What the claims about the comparators expect of N frames cut into
\* windows of window_size: the windows start at the multiples of
\* window_size below N, and the window starting at s ends before
\* min(s + window_size, N).
WindowStarts(n, window_size) == {s \in 0..(n - 1) : s % window_size = 0}
WindowEnd(n, window_size, s) == Min2(s + window_size, n)
\* The mean <<sum, count>> of the values of q in the window starting at s.
WindowMean(q, window_size, s) ==
    << SumSeq(SubSeq(q, s + 1, WindowEnd(Len(q), window_size, s))),
       WindowEnd(Len(q), window_size, s) - s >>
MeanEq(a, b) == a[1] * b[2] = b[1] * a[2]

\* C18: for two hash sequences of the same N >= 1 frames,
\* compare_perceptual_hashes reports as worst_window_mean_distance the
\* largest of the non-overlapping windows' mean Hamming distances (bit
\* count of the XOR), and is_valid is true exactly when every window's
\* mean is strictly below 5 bits, whatever the mean over all frames.
HashesCompared ==
    /\ ret # <<>>
    /\ call.fn = "compare_perceptual_hashes"
    /\ Len(call.computed_data) = Len(call.stored_data)
    /\ Len(call.computed_data) % 8 = 0
    /\ Len(call.computed_data) >= 8

FrameDistances ==
    [i \in 1..(Len(call.computed_data) \div 8) |->
        SumSeq([b \in 1..8 |->
                  BitCount(ByteXor(call.computed_data[8 * (i - 1) + b],
                                   call.stored_data[8 * (i - 1) + b]))])]

C18_WorstWindowHamming ==
    HashesCompared =>
      LET Verdict(d, starts) ==
            /\ ret[1].is_valid <=>
                  \A s \in starts :
                     WindowMean(d, call.window_size, s)[1]
                       < 5 * WindowMean(d, call.window_size, s)[2]
            /\ \E s \in starts :
                  /\ \A t \in starts : ~MeanLess(WindowMean(d, call.window_size, s),
                                                  WindowMean(d, call.window_size, t))
                  /\ ret[1].worst_window_mean_distance
                        = Round2(WindowMean(d, call.window_size, s))
            /\ ret[1].window_count = Cardinality(starts)
      IN Verdict(FrameDistances, WindowStarts(Len(FrameDistances), call.window_size))

\* C18 witness: the mean distance over all frames is below 5 bits, one
\* window's mean is 5 bits or more, and the result is invalid.
C18_Witness ==
    /\ HashesCompared
    /\ SumSeq(FrameDistances) < 5 * Len(FrameDistances)
    /\ ret[1].window_count >= 2
    /\ ret[1].worst_window_mean_distance >= 500
    /\ ret[1].overall_mean_distance < 500
    /\ ~ret[1].is_valid

\* C19: for more scores than window_size, compute_ssim returns as verdict
\* the smallest of the non-overlapping windows' arithmetic means; it is
\* the ssim of the first entry of worst_windows; worst_windows holds the
\* three windows of lowest mean (all of them when there are fewer) in
\* ascending order of mean; and verify_video_digest records ssim_score true
\* exactly when the verdict is at least ssim_threshold.
SsimWindowed ==
    /\ ret # <<>>
    /\ call.fn = "compute_ssim"
    /\ Len(call.ssim_scores) > call.window_size

C19_WorstWindowSsim ==
    SsimWindowed =>
      LET Verdict(q, w, starts, min_window_ssim, worst_windows) ==
            /\ \E s \in starts : MeanEq(WindowMean(q, w, s), min_window_ssim)
            /\ \A s \in starts : ~MeanLess(WindowMean(q, w, s), min_window_ssim)
            /\ min_window_ssim = worst_windows[1].ssim
            /\ Len(worst_windows) = Min2(3, Cardinality(starts))
            /\ \A i \in 1..Len(worst_windows) :
                  /\ worst_windows[i].start_frame \in starts
                  /\ worst_windows[i].ssim = WindowMean(q, w, worst_windows[i].start_frame)
                  /\ \A j \in 1..Len(worst_windows) :
                        /\ i < j => ~MeanLess(worst_windows[j].ssim, worst_windows[i].ssim)
                        /\ i # j => worst_windows[i].start_frame # worst_windows[j].start_frame
                  /\ \A s \in starts :
                        (\A j \in 1..Len(worst_windows) : worst_windows[j].start_frame # s)
                          => ~MeanLess(WindowMean(q, w, s), worst_windows[i].ssim)
            /\ ret[1].ssim_score <=>
                  min_window_ssim[1] >= call.ssim_threshold * min_window_ssim[2]
      IN Verdict(call.ssim_scores, call.window_size,
                 WindowStarts(Len(call.ssim_scores), call.window_size),
                 ret[1].ssim[1], ret[1].ssim[3])

\* C19 witness: the worst of several windows has exactly the threshold as
\* its mean, another window has a higher mean, and ssim_score is true.
C19_Witness ==
    /\ SsimWindowed
    /\ MeanEq(ret[1].ssim[1], <<call.ssim_threshold, 1>>)
    /\ Len(ret[1].ssim[3]) >= 2
    /\ MeanLess(ret[1].ssim[3][1].ssim, ret[1].ssim[3][2].ssim)
    /\ ret[1].ssim_score

\* C20: each comparator cuts the frames [0, N) into contiguous windows
\* that start at the multiples of window_size, do not overlap, and cover
\* every frame once: N = k * window_size gives k windows,
\* N = k * window_size + 1 gives k + 1 windows of which the last holds one
\* frame, and N <= window_size gives one window whose verdict is the
\* metric over all frames.  incl is 1 where end_frame is the window's last
\* frame (compute_ssim) and 0 where it is the frame after it.
Partitioned(windows, n, window_size, incl) ==
    LET Listed(starts) ==
          /\ \A i \in 1..Len(windows) :
                /\ windows[i].start_frame \in starts
                /\ windows[i].end_frame + incl
                     = WindowEnd(n, window_size, windows[i].start_frame)
          /\ Len(windows) = Min2(3, Cardinality(starts))
          /\ Cardinality(starts) <= 3 =>
                \A f \in 0..(n - 1) :
                   Cardinality({i \in 1..Len(windows) :
                                  /\ windows[i].start_frame <= f
                                  /\ f < windows[i].end_frame + incl}) = 1
          /\ (n % window_size = 1 /\ Cardinality(starts) <= 3) =>
                \E i \in 1..Len(windows) :
                   windows[i].start_frame = n - 1 /\ windows[i].end_frame + incl = n
    IN Listed(WindowStarts(n, window_size))

WindowCount(n, window_size) ==
    IF n % window_size = 0 THEN n \div window_size ELSE n \div window_size + 1

StatsCompared ==
    /\ ret # <<>>
    /\ call.fn = "compare_frame_statistics"
    /\ Len(call.computed_stats) = Len(call.stored_stats)
    /\ Len(call.computed_stats) >= 1

SsimComputed ==
    /\ ret # <<>>
    /\ call.fn = "compute_ssim"
    /\ Len(call.ssim_scores) >= 1

C20_WindowPartition ==
    /\ HashesCompared =>
          /\ Partitioned(ret[1].worst_windows, Len(FrameDistances), call.window_size, 0)
          /\ ret[1].window_count = WindowCount(Len(FrameDistances), call.window_size)
          /\ Len(FrameDistances) <= call.window_size =>
                /\ ret[1].window_count = 1
                /\ ret[1].worst_window_mean_distance = ret[1].overall_mean_distance
    /\ StatsCompared =>
          /\ Partitioned(ret[1].worst_windows, Len(call.computed_stats), call.window_size, 0)
          /\ ret[1].window_count = WindowCount(Len(call.computed_stats), call.window_size)
          /\ Len(call.computed_stats) <= call.window_size =>
                /\ ret[1].window_count = 1
                /\ ret[1].worst_window_correlation = ret[1].overall_correlation
                /\ ret[1].worst_window_mad = ret[1].overall_mad
    /\ SsimComputed =>
          /\ Partitioned(ret[1].ssim[3], Len(call.ssim_scores), call.window_size, 1)
          /\ Len(ret[1].ssim[3])
                = Min2(3, WindowCount(Len(call.ssim_scores), call.window_size))
          /\ Len(call.ssim_scores) <= call.window_size =>
                /\ Len(ret[1].ssim[3]) = 1
                /\ ret[1].ssim[1] = <<SumSeq(call.ssim_scores), Len(call.ssim_scores)>>

\* C20 witness: three frames of hashes compared in windows of two frames
\* gave two windows, the last one holding the single frame 2.
C20_Witness ==
    /\ HashesCompared
    /\ Len(FrameDistances) = 3 /\ call.window_size = 2
    /\ ret[1].window_count = 2
    /\ \E i \in 1..Len(ret[1].worst_windows) :
          ret[1].worst_windows[i].start_frame = 2 /\ ret[1].worst_windows[i].end_frame = 3

\* C21: inputs that cannot be compared give an error value, not an
\* exception: compare_perceptual_hashes returns {is_valid: false, error}
\* when the two byte strings differ in length or their length is not a
\* multiple of 8, compare_frame_statistics when the two lists differ in
\* length or are empty; the result holds no metric.
HashesMismatched ==
    /\ ret # <<>>
    /\ call.fn = "compare_perceptual_hashes"
    /\ \/ Len(call.computed_data) # Len(call.stored_data)
       \/ Len(call.computed_data) % 8 # 0

StatsMismatched ==
    /\ ret # <<>>
    /\ call.fn = "compare_frame_statistics"
    /\ \/ Len(call.computed_stats) # Len(call.stored_stats)
       \/ Len(call.computed_stats) = 0

C21_MismatchIsErrorValue ==
    (HashesMismatched \/ StatsMismatched) =>
       /\ DOMAIN ret[1] = {"is_valid", "error"}
       /\ ret[1].is_valid = FALSE
       /\ ret[1].error \in {"Hash data length mismatch", "Invalid hash data length",
                             "Frame count mismatch", "No frame statistics to compare"}

\* C21 witness: two hash strings of one length that is not a multiple of 8
\* were compared and the result is the error value.
C21_Witness ==
    /\ HashesMismatched
    /\ Len(call.computed_data) = Len(call.stored_data)
    /\ Len(call.computed_data) = 15
    /\ ret[1] = [is_valid |-> FALSE, error |-> "Invalid hash data length"]

\* C22: the Hamming verdict is monotone.  For the stored sequence and the
\* candidate compared, every candidate that differs from the stored one in
\* all the bits where the compared candidate does, and possibly in more,
\* has a worst-window mean distance at least as large, and is invalid
\* whenever the compared candidate is.
Bit(n, k) == (n \div (2 ^ k)) % 2

FlipsAdded(candidate, flipped, stored) ==
    /\ Len(flipped) = Len(candidate)
    /\ \A i \in 1..Len(candidate) : \A k \in 0..7 :
          Bit(ByteXor(candidate[i], stored[i]), k) <= Bit(ByteXor(flipped[i], stored[i]), k)

Flipped ==
    {flipped \in HashData : FlipsAdded(call.computed_data, flipped, call.stored_data)}

Recompared(flipped) ==
    compare_perceptual_hashes(flipped, call.stored_data, call.window_size, call.fps)

C22_HammingMonotone ==
    HashesCompared =>
      \A flipped \in Flipped :
         LET Monotone(after) ==
               /\ after.worst_window_mean_distance >= ret[1].worst_window_mean_distance
               /\ ~ret[1].is_valid => ~after.is_valid
         IN Monotone(Recompared(flipped))

\* C22 witness: a valid candidate was compared, and flipping more of its
\* bits gives a candidate of larger worst-window mean that is invalid.
C22_Witness ==
    /\ HashesCompared
    /\ ret[1].is_valid
    /\ ret[1].worst_window_mean_distance > 0
    /\ \E flipped \in Flipped :
          /\ Recompared(flipped).worst_window_mean_distance
                > ret[1].worst_window_mean_distance
          /\ ~Recompared(flipped).is_valid

\* What the claims about merge_overlapping_windows expect of a window: its
\* clip starts 1.5 s before the window, at 0 at the earliest, and ends
\* with it; times in half frame periods.
MergeReturned == ret # <<>> /\ call.fn = "merge_overlapping_windows"
ClipStart(window) ==
    IF 2 * window.start_frame > 3 * call.fps THEN 2 * window.start_frame - 3 * call.fps ELSE 0
ClipEnd(window) == 2 * window.end_frame
FiveSeconds == 10 * call.fps

\* C23: a clip is merged into the current one exactly when its padded
\* start is at most 5.0 s after the current end, the bound included.  So
\* consecutive clips returned are more than 5.0 s apart, and of two
\* windows the result is one clip spanning both when the later padded
\* start is within 5.0 s of the earlier window's end, and two clips
\* otherwise.
C23_MergeWithinFiveSeconds ==
    MergeReturned =>
      /\ \A i \in 1..(Len(ret[1]) - 1) :
            ret[1][i + 1].start_time > ret[1][i].end_time + FiveSeconds
      /\ Len(call.windows) = 2 =>
            LET Two(first, second) ==
                  IF ClipStart(second) <= ClipEnd(first) + FiveSeconds
                  THEN /\ Len(ret[1]) = 1
                       /\ ret[1][1].start_time = ClipStart(first)
                       /\ ret[1][1].end_time = Max2(ClipEnd(first), ClipEnd(second))
                  ELSE /\ Len(ret[1]) = 2
                       /\ ret[1][1].end_time = ClipEnd(first)
                       /\ ret[1][2].start_time = ClipStart(second)
            IN IF ClipStart(call.windows[1]) <= ClipStart(call.windows[2])
               THEN Two(call.windows[1], call.windows[2])
               ELSE Two(call.windows[2], call.windows[1])

\* C24: merging does not depend on the order of the windows: every
\* permutation of the windows given merges into the same sequence of
\* [start_time, end_time] intervals.
Intervals(clips) == [i \in 1..Len(clips) |-> <<clips[i].start_time, clips[i].end_time>>]
Orders(n) == {f \in [1..n -> 1..n] : \A i, j \in 1..n : f[i] = f[j] => i = j}

C24_MergeOrderInvariant ==
    MergeReturned =>
      \A order \in Orders(Len(call.windows)) :
         Intervals(merge_overlapping_windows(
                     [i \in 1..Len(call.windows) |-> call.windows[order[i]]], call.fps))
           = Intervals(ret[1])

\* C24 witness: three windows given out of order were merged into two
\* clips.
C24_Witness ==
    /\ MergeReturned
    /\ Len(call.windows) = 3
    /\ call.windows[1].start_frame > call.windows[2].start_frame
    /\ call.windows[2].start_frame > call.windows[3].start_frame
    /\ Len(ret[1]) = 2

\* C25: for the candidate whose only low frames are the second starting at
\* 45 s, the worst SSIM window is the window over frames 1350-1409 or a
\* neighbour of it, the result is invalid, and exactly one audit clip is
\* emitted, from 43.5 s to 46.0 s.
C25_OneAuditClip ==
    (ret # <<>> /\ call.fn = "verify" /\ call.bad_second = 45 /\ call.low = 50) =>
       /\ ret[1].worst_windows[1].start_frame <= 1469
       /\ ret[1].worst_windows[1].end_frame >= 1290
       /\ ~ret[1].is_valid
       /\ Len(ret[1].merged_clips) = 1
       /\ ret[1].merged_clips[1].start_time = 87 * DefaultFps
       /\ ret[1].merged_clips[1].end_time = 92 * DefaultFps

\* C30: the clips returned start at 0 or later, in strictly ascending
\* order; each starts more than 5.0 s after the one before it ends, as the
\* doubles returned compare; every window given is listed in exactly one
\* clip; a clip spans the padded interval of each window it lists; and no
\* window gives no clip.
Listed(clips, window) ==
    SumSeq([i \in 1..Len(clips) |->
              Cardinality({k \in 1..Len(clips[i].windows) : clips[i].windows[k] = window})])

GapExceeds(start_time, end_time) ==
    \/ start_time > end_time + FiveSeconds
    \/ /\ start_time = end_time + FiveSeconds
       /\ call.fps = 30
       /\ end_time \div 2 \in RoundedApart

C29_HashComparisonTotal ==
    (ret # <<>> /\ call.fn = "compare_perceptual_hashes") =>
       /\ ret[1] # Raise
       /\ "is_valid" \in DOMAIN ret[1]

\* C28: every result of verify_video_digest, whatever path returned it, has
\* is_valid true exactly when its list of errors is empty.
C28_ValidIffNoErrors ==
    Held => (Out.is_valid <=> Out.errors = <<>>)

\* C28 witness: a result whose only failed check is the SSIM score: one
\* error, and not valid.
C28_Witness ==
    /\ Held /\ ReachedVerdict
    /\ Check("package_structure") /\ Check("manifest_integrity") /\ Check("frame_count_match")
    /\ ~Check("digest_hash_match") /\ ~Check("ssim_score")
    /\ Len(Out.errors) = 1
    /\ ~Out.is_valid

\* C27: a result is valid only if the digest recreated from the candidate
\* has the SHA-256 the manifest records, or the SSIM and frame-count checks
\* passed against a digest_video.mp4 whose own SHA-256 is the one the
\* manifest records; so a digest_video.mp4 replaced after signing cannot
\* make a candidate valid.
DigestAsRecorded(fs) ==
    /\ fs.digest_video # NoFile
    /\ ManifestSha(fs, "digest_video.mp4") = JStr(hash_file(fs.digest_video))

C27_DigestBoundToManifest ==
    (Held /\ Out.is_valid) =>
       \/ Check("digest_hash_match")
       \/ /\ Check("ssim_score") /\ Check("frame_count_match")
          /\ DigestAsRecorded(pkg)

\* C26: when verify_video_digest, compute_ssim, the audio step of
\* sign_video or compute_region_fingerprints has returned or raised, none
\* of the scratch files it made (the recreated digest, the SSIM stats log,
\* the extracted audio, the cropped video) exists any more.
C26_ScratchRemoved ==
    (call.fn \in {"verify_video_digest", "compute_ssim", "sign_video",
                  "compute_region_fingerprints"} /\ "files" \in DOMAIN call /\ ret # <<>>)
       => call.files = {}

\* C26 witness: verify_video_digest has returned after compress_video
\* wrote the recreated digest, compute_ssim made its stats log, and a step
\* inside the temporary directory raised and was caught.
C26_Witness ==
    /\ call.fn = "verify_video_digest" /\ "files" \in DOMAIN call
    /\ ret = << "returned" >>
    /\ call.written = { <<"tmp_dir", "recreated_digest.mp4">>,
                         <<"stats_file", "ssim_stats.log">> }
    /\ call.pc > Len(call.program)
    /\ call.resume # 0

====
